---- MODULE Spec2Model ----
(***************************************************************************)
(* Model of the trip discovery and enrichment pipeline of travel_helper:   *)
(*   - collect_outbound_flights   (src/travel_helper.py)                   *)
(*   - fetch_hotels_for_cheapest_flights, _fetch_geotemp_for_trips         *)
(*   - _parse_tool_result, get_weather, get_attractions                    *)
(*                                (src/geotemp_fetch_mcp.py)               *)
(*   - _parse_price_night         (src/travel_helper.py)                   *)
(*   - search_accommodations      (src/trivago/fetch_hotels_mcp.py)        *)
(*   - get_location_suggestion    (src/trivago/fetch_hotels_mcp.py)        *)
(*   - run                        (src/travel_helper.py)                   *)
(* Dates are day numbers counted from 2026-01-01 (day 0, a Thursday).      *)
(* Text is a sequence of one-character strings.                            *)
(***************************************************************************)
EXTENDS Integers, Sequences, FiniteSets, TLC

VARIABLES
    \* ---- collect_outbound_flights ----
    today,        \* what datetime.today().date() returns now
    midnights,    \* the midnights passed since collect_outbound_flights began
    n_days,       \* the horizon (days_ahead or DAYS_AHEAD)
    oi,           \* index into ORIGIN_AIRPORTS of the outer loop
    day_offset,   \* the inner loop variable
    outbound,     \* the list being built, then the returned list
    spc,          \* "loop" | "returned" | "raised"
    provided,     \* history: every pair the flight provider returned, in order
    calls,        \* history: every query sent to the flight provider
    \* ---- _parse_price_night ----
    price_h,      \* the offer passed to _parse_price_night
    price_out,    \* what the call produced
    ppc,          \* "call" | "done"
    \* ---- _parse_tool_result ----
    norm_in,      \* the result passed to _parse_tool_result
    norm_out,     \* what the call produced
    norm_again,   \* what a second call on the first call's value produced
    npc,          \* "call" | "done" | "again" | "wrapped"
    \* ---- search_accommodations: reading the provider's text ----
    all_text_parts,   \* the texts collected from the content blocks
    pi,               \* index of the part in the loop over all_text_parts
    accommodations,   \* the local of that name, then the returned list
    xpc,              \* "loop" | "returned"
    \* ---- get_location_suggestion: reading the provider's answer ----
    sug_data,     \* the data passed to _parse_suggestions_from_data
    sug_pair,     \* what that call produced
    sug_result,   \* the tool result get_location_suggestion received
    sug_out,      \* what get_location_suggestion produced from it
    gpc,          \* "data" | "result" | "done"
    \* ---- module level of travel_helper.py ----
    TRIVAGO_AVAILABLE,    \* lines 67-74: the lodging client could be imported
    GEOTEMP_AVAILABLE,    \* lines 77-84: the weather client could be imported
    \* ---- given to one execution and never changed by it ----
    on_sale,              \* the kinds of pair the flight provider has on sale
    num_cheapest_flights, \* run()'s parameter (line 637)
    \* ---- run(): lodging and weather/attraction enrichment ----
    cheapest_flights,     \* the candidates passed to the enrichment
    fetch_hotels,         \* run()'s parameter
    ti,                   \* index of the task in the loop over tasks
    qi,                   \* index of the query in the loop over queries
    suggestion,           \* the local of _top_hotels_for_destination
    results,              \* the list fetch_hotels_for_cheapest_flights builds
    hotel_results,        \* run()'s hotel_results
    wi,                   \* index into weather_keys
    dests_left,           \* the destinations the for loop has not visited
    weather_by_key,       \* cache of _fetch_geotemp_for_trips
    attractions_by_dest,  \* cache of _fetch_geotemp_for_trips
    travel_data,          \* run()'s travel_data
    epc,                  \* position in run(), see InitHotels
    rlog,                 \* history: every remote tool call, in order
    failed                \* history: <<task index, step>> of every step that raised

searchVars == <<today, midnights, n_days, oi, day_offset, outbound, spc, provided, calls>>
priceVars == <<price_h, price_out, ppc>>

normVars == <<norm_in, norm_out, norm_again, npc>>
extractVars == <<all_text_parts, pi, accommodations, xpc>>
suggestVars == <<sug_data, sug_pair, sug_result, sug_out, gpc>>
\* what one execution is given and never changes
givenVars == <<TRIVAGO_AVAILABLE, GEOTEMP_AVAILABLE, on_sale,
               num_cheapest_flights>>

enrichVars == <<cheapest_flights, fetch_hotels, ti, qi, suggestion, results,
                hotel_results, wi, dests_left, weather_by_key,
                attractions_by_dest, travel_data, epc, rlog, failed>>

\* what an action of one component leaves alone
notSearch == <<priceVars, normVars, extractVars, suggestVars, enrichVars,
              givenVars>>
notPrice == <<searchVars, normVars, extractVars, suggestVars, enrichVars,
              givenVars>>
notNorm == <<searchVars, priceVars, extractVars, suggestVars, enrichVars,
             givenVars>>
notExtract == <<searchVars, priceVars, normVars, suggestVars, enrichVars,
                givenVars>>
notSuggest == <<searchVars, priceVars, normVars, extractVars, enrichVars,
                givenVars>>
notEnrich == <<searchVars, priceVars, normVars, extractVars, suggestVars,
               givenVars>>
\* what the lodging steps and the weather steps leave alone of the enrichment
geoVars == <<wi, dests_left, weather_by_key, attractions_by_dest, travel_data>>
lodgingVars == <<ti, qi, suggestion, results, failed>>

\* ------------------------------------------------------------------ bounds
MaxDays == 3        \* largest horizon explored
MaxMidnights == 1   \* most midnights passing during one search
MaxTrips == 2       \* most pairs the provider returns over one search
MaxPriceLen == 3    \* longest enumerated price text
MaxTextLen == 3     \* longest enumerated content-block text
MaxCands == 2       \* most candidates passed to the enrichment

\* -------------------------------------------------- configuration constants
ORIGIN_AIRPORTS == << <<"CGN", "Koeln">>, <<"NRN", "Duesseldorf Weeze">> >>
RETURN_DAYS_MIN == 2
RETURN_DAYS_MAX == 4
THURSDAY == 3
FRIDAY == 4
OUTBOUND_THURSDAY_AFTER_HOUR == 17
OUTBOUND_FRIDAY_AFTER_HOUR == 23

\* date.weekday(): Monday = 0; day 0 is Thursday 2026-01-01
Weekday(d) == (d + 3) % 7

\* _outbound_departure_allowed(dt)
OutboundDepartureAllowed(dt) ==
    LET wd == Weekday(dt.date)
        hour == dt.hour
    IN  IF wd = THURSDAY THEN hour >= OUTBOUND_THURSDAY_AFTER_HOUR
        ELSE IF wd = FRIDAY THEN hour >= OUTBOUND_FRIDAY_AFTER_HOUR
        ELSE FALSE

\* The outbound time window collect_outbound_flights asks for, as hours
\* ("17:00" -> 17, "11:00" -> 11, "23:59" -> the whole of hour 23).
ThursdayTimeFrom == 17
FridayTimeFrom == 11
TimeTo == 23

OutboundTimeFrom(wd) == IF wd = THURSDAY THEN ThursdayTimeFrom ELSE FridayTimeFrom

\* ---------------------------------------------------------- flight provider
\* Destination codes the provider may name, in alphabetical order; str
\* comparison of two codes is comparison of their ranks in this list.
DestinationCodes == <<"AGP", "BCN">>
CodeRank(c) == CHOOSE i \in DOMAIN DestinationCodes : DestinationCodes[i] = c

\* destinationFull of each code: one name with a " - " qualifier, an airport
\* code in parentheses and a country after a comma; one plain city name
DestinationFull(c) ==
    CASE c = "AGP" -> <<"A", " ", "-", " ", "B", " ", "(", "X", ")", ",", " ", "I">>
      [] c = "BCN" -> <<"A">>
      [] OTHER -> <<"K">>

\* (outbound price, inbound price) combinations the provider may quote
PricePairs == { <<10, 20>>, <<20, 5>> }

\* Ryanair.get_cheapest_return_flights(origin, date, date, ret_from, ret_to,
\* outbound_departure_time_from, outbound_departure_time_to): any pairs whose
\* outbound leaves on `date` inside the time window and whose inbound leaves
\* inside the return date range. The pairs offered leave at either end of
\* the time window and return at either end of the date range.
ProviderTrips(code, date, time_from, time_to, ret_from, ret_to) ==
    { [outbound |-> [origin |-> code, destination |-> DestinationCodes[c],
                     destinationFull |-> DestinationFull(DestinationCodes[c]),
                     departureTime |-> [date |-> date, hour |-> h],
                     price |-> pp[1]],
       inbound  |-> [origin |-> DestinationCodes[c], destination |-> code,
                     destinationFull |-> DestinationFull(code),
                     departureTime |-> [date |-> rd, hour |-> 12],
                     price |-> pp[2]]] :
        c \in DOMAIN DestinationCodes, h \in {time_from, time_to},
        rd \in {ret_from, ret_to}, pp \in PricePairs }

\* Sequences over S of length at most n
SeqUpTo(S, n) == UNION { [1..k -> S] : k \in 0..n }

\* ------------------------------------------------------------------ sorting
\* a key on the outbound price alone
SortKeyOutboundPriceOnly(x) == <<x[3], x[1].departureTime.date, CodeRank(x[1].destination)>>

\* the sort key of line 627: (x[2] + x[1].price, x[0].departureTime.date(),
\* x[0].destination); the tuple (ob, inbound, price) is <<x[1], x[2], x[3]>>
SortKey(x) == <<x[3] + x[2].price, x[1].departureTime.date, CodeRank(x[1].destination)>>

\* tuple comparison a < b of two keys of three integers
KeyLess(a, b) ==
    \/ a[1] < b[1]
    \/ a[1] = b[1] /\ a[2] < b[2]
    \/ a[1] = b[1] /\ a[2] = b[2] /\ a[3] < b[3]

\* list.sort(key=...): stable; x goes after every element whose key is <= its own
RECURSIVE InsertByKey(_, _)
InsertByKey(sorted, x) ==
    IF sorted = <<>> THEN <<x>>
    ELSE IF KeyLess(SortKey(x), SortKey(Head(sorted)))
         THEN <<x>> \o sorted
         ELSE <<Head(sorted)>> \o InsertByKey(Tail(sorted), x)

RECURSIVE SortByKey(_)
SortByKey(s) ==
    IF s = <<>> THEN <<>>
    ELSE InsertByKey(SortByKey(SubSeq(s, 1, Len(s) - 1)), s[Len(s)])

\* ------------------------------------------------- collect_outbound_flights
\* lines 620-626: tag the trip's outbound leg and build the candidate tuple
Candidate(t, airport_code, airport_name) ==
    LET ob == [origin |-> t.outbound.origin,
               destination |-> t.outbound.destination,
               destinationFull |-> t.outbound.destinationFull,
               departureTime |-> t.outbound.departureTime,
               price |-> t.outbound.price,
               origin_airport |-> airport_name,
               origin_code |-> airport_code]
    IN  <<ob, t.inbound, ob.price>>

RECURSIVE Candidates(_, _, _)
Candidates(trips, airport_code, airport_name) ==
    IF trips = <<>> THEN <<>>
    ELSE <<Candidate(Head(trips), airport_code, airport_name)>>
         \o Candidates(Tail(trips), airport_code, airport_name)

\* the days a search begins on: a Thursday, a Friday and a Monday
StartDays == {0, 1, 4}

InitSearch ==
    /\ today \in StartDays
    /\ midnights = 0
    /\ n_days \in 0..MaxDays
    /\ oi = 1
    /\ day_offset = 0
    /\ outbound = <<>>
    /\ spc = "loop"
    /\ provided = <<>>
    /\ calls = <<>>

\* line 602 reads the clock anew in every iteration: between two iterations,
\* while a query is awaited or not, the date may change. The searches
\* explored have one pair fewer for every midnight that passes.
Midnight ==
    /\ spc = "loop"
    /\ midnights < MaxMidnights
    /\ midnights + Len(provided) < MaxTrips
    /\ today' = today + 1
    /\ midnights' = midnights + 1
    /\ UNCHANGED <<n_days, oi, day_offset, outbound, spc, provided, calls>>
    /\ UNCHANGED notSearch

\* range(0, n_days) exhausted for the current origin: next origin
NextOrigin ==
    /\ spc = "loop"
    /\ oi <= Len(ORIGIN_AIRPORTS)
    /\ day_offset >= n_days
    /\ oi' = oi + 1
    /\ day_offset' = 0
    /\ UNCHANGED <<today, midnights, n_days, outbound, spc, provided, calls>>
    /\ UNCHANGED notSearch

\* lines 608-609 skipping the following day as well
SkipDayTwice ==
    /\ spc = "loop"
    /\ oi <= Len(ORIGIN_AIRPORTS)
    /\ day_offset < n_days
    /\ Weekday(today + day_offset) \notin {THURSDAY, FRIDAY}
    /\ day_offset' = day_offset + 2
    /\ UNCHANGED <<today, midnights, n_days, oi, outbound, spc, provided, calls>>
    /\ UNCHANGED notSearch

\* lines 608-609: a weekday with no admission rule is skipped
SkipDay ==
    /\ spc = "loop"
    /\ oi <= Len(ORIGIN_AIRPORTS)
    /\ day_offset < n_days
    /\ Weekday(today + day_offset) \notin {THURSDAY, FRIDAY}
    /\ day_offset' = day_offset + 1
    /\ UNCHANGED <<today, midnights, n_days, oi, outbound, spc, provided, calls>>
    /\ UNCHANGED notSearch

\* the query of lines 610-618 with the return window one day too long
CurrentQueryLateReturn ==
    LET search_date == today + day_offset
    IN  [airport_code |-> ORIGIN_AIRPORTS[oi][1],
         search_date |-> search_date,
         time_from |-> OutboundTimeFrom(Weekday(search_date)),
         time_to |-> TimeTo,
         return_date_from |-> search_date + RETURN_DAYS_MIN,
         return_date_to |-> search_date + RETURN_DAYS_MAX + 1]

\* the query of lines 610-618 for the current (origin, day)
CurrentQuery ==
    LET search_date == today + day_offset
    IN  [airport_code |-> ORIGIN_AIRPORTS[oi][1],
         search_date |-> search_date,
         time_from |-> OutboundTimeFrom(Weekday(search_date)),
         time_to |-> TimeTo,
         return_date_from |-> search_date + RETURN_DAYS_MIN,
         return_date_to |-> search_date + RETURN_DAYS_MAX]

\* The kinds of pair a provider may have on sale: a destination code, the
\* end of the time window the outbound leaves at, the end of the return
\* range the inbound leaves on, and the two prices.
Kinds ==
    [c : DOMAIN DestinationCodes, h : {"from", "to"}, r : {"from", "to"},
     pp : PricePairs]

\* the kind of the pair u among the answers to query q
KindOf(u, q) ==
    [c |-> CodeRank(u.outbound.destination),
     h |-> IF u.outbound.departureTime.hour = q.time_to THEN "to" ELSE "from",
     r |-> IF u.inbound.departureTime.date = q.return_date_to THEN "to" ELSE "from",
     pp |-> <<u.outbound.price, u.inbound.price>>]

\* what the provider may return for query q: any list, repetitions
\* included, of pairs inside the windows asked for and of a kind it has on
\* sale, at most MaxTrips pairs over one search and one fewer for every
\* midnight that has passed
TripLists(q) ==
    SeqUpTo({ u \in ProviderTrips(q.airport_code, q.search_date,
                                  q.time_from, q.time_to,
                                  q.return_date_from, q.return_date_to) :
                KindOf(u, q) \in on_sale },
            MaxTrips - midnights - Len(provided))

\* lines 602-626: one admissible day, the provider answers
QueryDay ==
    /\ spc = "loop"
    /\ oi <= Len(ORIGIN_AIRPORTS)
    /\ day_offset < n_days
    /\ Weekday(today + day_offset) \in {THURSDAY, FRIDAY}
    /\ LET q == CurrentQuery
       IN  \E trips \in TripLists(q) :
             /\ outbound' = outbound \o Candidates(trips, ORIGIN_AIRPORTS[oi][1],
                                                   ORIGIN_AIRPORTS[oi][2])
             /\ provided' = provided \o trips
             /\ calls' = Append(calls, q)
    /\ day_offset' = day_offset + 1
    /\ UNCHANGED <<today, midnights, n_days, oi, spc>>
    /\ UNCHANGED notSearch

\* the provider raises: nothing catches it, the search ends without a list
QueryRaises ==
    /\ spc = "loop"
    /\ oi <= Len(ORIGIN_AIRPORTS)
    /\ day_offset < n_days
    /\ Weekday(today + day_offset) \in {THURSDAY, FRIDAY}
    /\ calls' = Append(calls, CurrentQuery)
    /\ spc' = "raised"
    /\ UNCHANGED <<today, midnights, n_days, oi, day_offset, outbound, provided>>
    /\ UNCHANGED notSearch

\* lines 627-628: sort and return
SortAndReturn ==
    /\ spc = "loop"
    /\ oi > Len(ORIGIN_AIRPORTS)
    /\ outbound' = SortByKey(outbound)
    /\ spc' = "returned"
    /\ UNCHANGED <<today, midnights, n_days, oi, day_offset, provided, calls>>
    /\ UNCHANGED notSearch

NextSearch ==
    \/ Midnight
    \/ NextOrigin
    \/ SkipDay
    \/ QueryDay
    \/ QueryRaises
    \/ SortAndReturn


\* ------------------------------------------------------------ Python values
\* A value of a mapping read with .get(): None, a str or a number.
None == [t |-> "none"]
Str(s) == [t |-> "str", s |-> s]
Num(n) == [t |-> "num", n |-> n]

\* bool(v)
Truthy(v) ==
    CASE v.t = "none" -> FALSE
      [] v.t = "str" -> v.s # <<>>
      [] v.t = "num" -> v.n # 0
      [] v.t = "bool" -> v.b
      [] v.t = "arr" -> v.a # <<>>
      [] v.t = "obj" -> v.o # <<>>
      [] OTHER -> TRUE

\* a or b
Or(a, b) == IF Truthy(a) THEN a ELSE b

\* h.get(k)
Get(h, k) == IF k \in DOMAIN h THEN h[k] ELSE None

\* ------------------------------------------------------- _parse_price_night
Digits == <<"0", "1", "2", "3", "4", "5", "6", "7", "8", "9">>
IsDigit(c) == \E i \in DOMAIN Digits : Digits[i] = c
DigitValue(c) == (CHOOSE i \in DOMAIN Digits : Digits[i] = c) - 1

\* str.replace(a, b) for one-character a and b
Replace(s, a, b) == [i \in DOMAIN s |-> IF s[i] = a THEN b ELSE s[i]]

\* the character class [\d.,]
InPriceClass(c) == IsDigit(c) \/ c = "." \/ c = ","

\* re.search(r"[\d.,]+", s): the leftmost longest run, or no match
SearchPriceRun(s) ==
    IF \A i \in DOMAIN s : ~InPriceClass(s[i])
    THEN [found |-> FALSE, group |-> <<>>]
    ELSE LET start == CHOOSE i \in DOMAIN s :
                        /\ InPriceClass(s[i])
                        /\ \A j \in 1..(i - 1) : ~InPriceClass(s[j])
             stop == CHOOSE e \in start..Len(s) :
                        /\ \A j \in start..e : InPriceClass(s[j])
                        /\ (e = Len(s) \/ ~InPriceClass(s[e + 1]))
         IN  [found |-> TRUE, group |-> SubSeq(s, start, stop)]

\* A float: +infinity, or the decimal num / 10^exp with no trailing zero kept
\* in the fraction (so equal numbers are equal records).
Infinity == [k |-> "inf"]

RECURSIVE Decimal(_, _)
Decimal(num, exp) ==
    IF exp > 0 /\ num % 10 = 0 THEN Decimal(num \div 10, exp - 1)
    ELSE [k |-> "num", num |-> num, exp |-> exp]

\* the integer written by a digit string ("" is 0)
RECURSIVE DigitsToNat(_)
DigitsToNat(ds) ==
    IF ds = <<>> THEN 0
    ELSE 10 * DigitsToNat(SubSeq(ds, 1, Len(ds) - 1)) + DigitValue(ds[Len(ds)])

\* float(s) for s made of digits, "." and ",": a ValueError unless s is
\* digits with at most one "." and at least one digit
FloatOf(s) ==
    LET dots == {i \in DOMAIN s : s[i] = "."}
        digs == {i \in DOMAIN s : IsDigit(s[i])}
    IN  IF \/ digs = {}
           \/ Cardinality(dots) > 1
           \/ \E i \in DOMAIN s : ~IsDigit(s[i]) /\ s[i] # "."
        THEN [k |-> "ValueError"]
        ELSE LET ds == SelectSeq(s, IsDigit)
                 exp == IF dots = {} THEN 0
                        ELSE Len(s) - (CHOOSE i \in dots : TRUE)
             IN  Decimal(DigitsToNat(ds), exp)

\* the parser applying float() to the whole text, with no pattern search and
\* no ValueError handler
ParsePriceNightNoSearch(h) ==
    LET raw == Or(Or(Get(h, "Price Per Night"), Get(h, "price_per_night")), Str(<<>>))
    IN  IF ~Truthy(raw) THEN Infinity
        ELSE IF raw.t # "str" THEN [k |-> "raise", exc |-> "AttributeError"]
        ELSE LET v == FloatOf(Replace(raw.s, ",", "."))
             IN  IF v.k = "ValueError" THEN [k |-> "raise", exc |-> "ValueError"] ELSE v

\* _parse_price_night(h), lines 145-156
ParsePriceNight(h) ==
    LET raw == Or(Or(Get(h, "Price Per Night"), Get(h, "price_per_night")), Str(<<>>))
    IN  IF ~Truthy(raw) THEN Infinity
        ELSE IF raw.t # "str" THEN [k |-> "raise", exc |-> "AttributeError"]
        ELSE LET m == SearchPriceRun(Replace(raw.s, ",", "."))
             IN  IF ~m.found THEN Infinity
                 ELSE LET v == FloatOf(m.group)
                      IN  IF v.k = "ValueError" THEN Infinity ELSE v

\* characters of the enumerated price texts
PriceChars == {"€", "7", "1", "0", ".", ",", "n"}

\* every text over PriceChars of length at most MaxPriceLen, and the longer
\* price texts of the documentation
PriceTexts ==
    SeqUpTo(PriceChars, MaxPriceLen)
    \cup { <<"1", ".", "2", "3", "4", ",", "5", "0">>, <<"n", "/", "a">> }

\* values of the nightly-price field: a text, None, or a number
PriceFieldValues == {Str(s) : s \in PriceTexts} \cup {None, Num(0), Num(77)}
AltFieldValues == {None, Str(<<>>), Str(<<"5">>), Str(<<"n">>)}

\* offers: each of the two price fields absent or present
Offers ==
    { [f \in {"name"} |-> Str(<<"H">>)] }
    \cup { ("name" :> Str(<<"H">>)) @@ ("Price Per Night" :> v) : v \in PriceFieldValues }
    \cup { ("name" :> Str(<<"H">>)) @@ ("price_per_night" :> w) : w \in AltFieldValues }
    \cup { ("name" :> Str(<<"H">>)) @@ ("Price Per Night" :> v) @@ ("price_per_night" :> w) :
             v \in PriceFieldValues, w \in AltFieldValues }

InitPrice ==
    /\ price_h \in Offers
    /\ price_out = [k |-> "pending"]
    /\ ppc = "call"

CallParsePriceNight ==
    /\ ppc = "call"
    /\ price_out' = ParsePriceNight(price_h)
    /\ ppc' = "done"
    /\ UNCHANGED price_h
    /\ UNCHANGED notPrice

NextPrice == CallParsePriceNight

\* ---------------------------------------------------------------- JSON text
\* Python values beyond None, str and numbers: bool, list, dict. A dict is
\* its items in insertion order, each <<key text, value>>, keys distinct.
Bool(b) == [t |-> "bool", b |-> b]
Arr(a) == [t |-> "arr", a |-> a]
Obj(o) == [t |-> "obj", o |-> o]

\* s[i], or "" past the end
At(s, i) == IF i \in DOMAIN s THEN s[i] ELSE ""

\* json.decoder.WHITESPACE
IsWhitespace(c) == c \in {" ", "\t", "\n", "\r"}

\* the first index >= i that holds no whitespace
RECURSIVE SkipWs(_, _)
SkipWs(s, i) == IF IsWhitespace(At(s, i)) THEN SkipWs(s, i + 1) ELSE i

\* outcome of scanning one value: the value and the index after it
ScanOk(v, next) == [ok |-> TRUE, v |-> v, next |-> next]
ScanFail == [ok |-> FALSE, v |-> None, next |-> 0]

\* the literal lit stands at s[i..]
MatchAt(s, i, lit) ==
    /\ i + Len(lit) - 1 <= Len(s)
    /\ \A k \in DOMAIN lit : s[i + k - 1] = lit[k]

\* the end of the digit run starting at i (i - 1 when s[i] is no digit)
RECURSIVE DigitRunEnd(_, _)
DigitRunEnd(s, i) == IF IsDigit(At(s, i)) THEN DigitRunEnd(s, i + 1) ELSE i - 1

\* json.scanner NUMBER_RE, integer part: -?(0|[1-9]\d*). Texts of the model
\* hold no fraction or exponent.
ScanNumber(s, i) ==
    LET neg == At(s, i) = "-"
        d == IF neg THEN i + 1 ELSE i
    IN  IF ~IsDigit(At(s, d)) THEN ScanFail
        ELSE LET e == IF s[d] = "0" THEN d ELSE DigitRunEnd(s, d)
                 n == DigitsToNat(SubSeq(s, d, e))
             IN  ScanOk(Num(IF neg THEN 0 - n ELSE n), e + 1)

\* json.decoder.scanstring (strict): up to the next quote; a control
\* character inside is an error. Texts of the model hold no backslash.
ScanString(s, i) ==
    IF \A j \in (i + 1)..Len(s) : s[j] # "\""
    THEN ScanFail
    ELSE LET j == CHOOSE j \in (i + 1)..Len(s) :
                    /\ s[j] = "\""
                    /\ \A k \in (i + 1)..(j - 1) : s[k] # "\""
         IN  IF \E k \in (i + 1)..(j - 1) : s[k] \in {"\t", "\n", "\r"}
             THEN ScanFail
             ELSE ScanOk(Str(SubSeq(s, i + 1, j - 1)), j + 1)

\* dict[k] = v: a repeated key keeps its place and takes the new value
PutItem(items, k, v) ==
    IF \E x \in DOMAIN items : items[x][1] = k
    THEN [x \in DOMAIN items |-> IF items[x][1] = k THEN <<k, v>> ELSE items[x]]
    ELSE Append(items, <<k, v>>)

RECURSIVE ScanValue(_, _)
RECURSIVE ScanElements(_, _, _)
RECURSIVE ScanMembers(_, _, _)

\* json.decoder.JSONArray, from the first element at i
ScanElements(s, i, acc) ==
    LET r == ScanValue(s, i)
    IN  IF ~r.ok THEN ScanFail
        ELSE LET k == SkipWs(s, r.next)
             IN  IF At(s, k) = "]" THEN ScanOk(Arr(Append(acc, r.v)), k + 1)
                 ELSE IF At(s, k) = "," THEN ScanElements(s, SkipWs(s, k + 1), Append(acc, r.v))
                 ELSE ScanFail

\* json.decoder.JSONObject, from the quote of a key at i
ScanMembers(s, i, acc) ==
    IF At(s, i) # "\"" THEN ScanFail
    ELSE LET key == ScanString(s, i)
         IN  IF ~key.ok THEN ScanFail
             ELSE LET c == SkipWs(s, key.next)
                  IN  IF At(s, c) # ":" THEN ScanFail
                      ELSE LET r == ScanValue(s, SkipWs(s, c + 1))
                           IN  IF ~r.ok THEN ScanFail
                               ELSE LET k == SkipWs(s, r.next)
                                        items == PutItem(acc, key.v.s, r.v)
                                    IN  IF At(s, k) = "}" THEN ScanOk(Obj(items), k + 1)
                                        ELSE IF At(s, k) = ","
                                             THEN ScanMembers(s, SkipWs(s, k + 1), items)
                                             ELSE ScanFail

\* json.scanner scan_once at index i
ScanValue(s, i) ==
    LET c == At(s, i)
    IN  CASE c = "\"" -> ScanString(s, i)
          [] c = "{" -> LET j == SkipWs(s, i + 1)
                        IN  IF At(s, j) = "}" THEN ScanOk(Obj(<<>>), j + 1)
                            ELSE ScanMembers(s, j, <<>>)
          [] c = "[" -> LET j == SkipWs(s, i + 1)
                        IN  IF At(s, j) = "]" THEN ScanOk(Arr(<<>>), j + 1)
                            ELSE ScanElements(s, j, <<>>)
          [] c = "n" /\ MatchAt(s, i, <<"n", "u", "l", "l">>) -> ScanOk(None, i + 4)
          [] c = "t" /\ MatchAt(s, i, <<"t", "r", "u", "e">>) -> ScanOk(Bool(TRUE), i + 4)
          [] c = "f" /\ MatchAt(s, i, <<"f", "a", "l", "s", "e">>) -> ScanOk(Bool(FALSE), i + 5)
          [] OTHER -> ScanNumber(s, i)

\* json.loads(s) for a str s: the value, or ok = FALSE for JSONDecodeError
JsonLoads(s) ==
    LET r == ScanValue(s, SkipWs(s, 1))
    IN  IF r.ok /\ SkipWs(s, r.next) = Len(s) + 1
        THEN [ok |-> TRUE, v |-> r.v]
        ELSE [ok |-> FALSE, v |-> None]

\* str(n) for n >= 0
RECURSIVE NatToDigits(_)
NatToDigits(n) ==
    IF n < 10 THEN <<Digits[n + 1]>>
    ELSE NatToDigits(n \div 10) \o <<Digits[(n % 10) + 1]>>

\* json.encoder: a quote, a backslash and a newline inside a string
RECURSIVE Escape(_)
Escape(s) ==
    IF s = <<>> THEN <<>>
    ELSE (CASE Head(s) = "\"" -> <<"\\", "\"">>
            [] Head(s) = "\\" -> <<"\\", "\\">>
            [] Head(s) = "\n" -> <<"\\", "n">>
            [] OTHER -> <<Head(s)>>) \o Escape(Tail(s))

RECURSIVE JsonDumps(_)
RECURSIVE DumpElements(_)
RECURSIVE DumpItems(_)

\* the elements of a list joined by ", "
DumpElements(a) ==
    IF a = <<>> THEN <<>>
    ELSE IF Len(a) = 1 THEN JsonDumps(a[1])
    ELSE JsonDumps(a[1]) \o <<",", " ">> \o DumpElements(Tail(a))

\* the items of a dict, each "key": value, joined by ", "
DumpItems(o) ==
    IF o = <<>> THEN <<>>
    ELSE LET item == <<"\"">> \o Escape(o[1][1]) \o <<"\"", ":", " ">>
                       \o JsonDumps(o[1][2])
         IN  IF Len(o) = 1 THEN item ELSE item \o <<",", " ">> \o DumpItems(Tail(o))

\* json.dumps(v) with the default separators
JsonDumps(v) ==
    CASE v.t = "none" -> <<"n", "u", "l", "l">>
      [] v.t = "bool" -> IF v.b THEN <<"t", "r", "u", "e">> ELSE <<"f", "a", "l", "s", "e">>
      [] v.t = "num" -> IF v.n < 0 THEN <<"-">> \o NatToDigits(0 - v.n) ELSE NatToDigits(v.n)
      [] v.t = "str" -> <<"\"">> \o Escape(v.s) \o <<"\"">>
      [] v.t = "arr" -> <<"[">> \o DumpElements(v.a) \o <<"]">>
      [] v.t = "obj" -> <<"{">> \o DumpItems(v.o) \o <<"}">>

\* ------------------------------------------------------- _parse_tool_result
\* A CallToolResult: an object with the attributes content (None or a list
\* of blocks) and structuredContent.
Result(content, sc) == [t |-> "result", content |-> content, structuredContent |-> sc]

\* A content block that is an object: with a .text attribute, with only a
\* model_dump() method, or with neither.
TextObject(text) == [t |-> "textobj", text |-> text]
DumpObject(d) == [t |-> "dumpobj", dump |-> d]
PlainObject == [t |-> "object"]

KeyText == <<"t", "e", "x", "t">>
KeyRaw == <<"r", "a", "w">>

\* d.get(key) for a dict d
DictGet(d, key) ==
    IF \E x \in DOMAIN d.o : d.o[x][1] = key
    THEN d.o[CHOOSE x \in DOMAIN d.o : d.o[x][1] = key][2]
    ELSE None

\* getattr(result, name, None)
Attr(result, name) ==
    IF result.t = "result"
    THEN IF name = "content" THEN result.content ELSE result.structuredContent
    ELSE None

\* text[:n]
Take(s, n) == SubSeq(s, 1, IF Len(s) < n THEN Len(s) ELSE n)

\* the number of characters kept by the raw fallback
RawLimit == 500

\* _get_block_text handling only objects with a .text attribute
GetBlockTextAttrOnly(block) ==
    CASE block.t = "textobj" -> block.text
      [] OTHER -> None

\* _get_block_text(block), geotemp_fetch_mcp.py lines 19-28
GetBlockText(block) ==
    CASE block.t = "none" -> None
      [] block.t = "obj" -> DictGet(block, KeyText)
      [] block.t = "textobj" -> block.text
      [] block.t = "dumpobj" -> DictGet(block.dump, KeyText)
      [] OTHER -> None

Return(v) == [k |-> "return", v |-> v]
Raise(exc) == [k |-> "raise", exc |-> exc]

\* lines 58-62: the first of the texts that parses, None when none does;
\* json.loads of a text that is no str raises TypeError
RECURSIVE FirstParsed(_)
FirstParsed(parts) ==
    IF parts = <<>> THEN Return(None)
    ELSE IF Head(parts).t # "str" THEN Raise("TypeError")
    ELSE LET r == JsonLoads(Head(parts).s)
         IN  IF r.ok THEN Return(r.v) ELSE FirstParsed(Tail(parts))

\* [_get_block_text(b) for b in content if _get_block_text(b)]
RECURSIVE TruthyTexts(_)
TruthyTexts(blocks) ==
    IF blocks = <<>> THEN <<>>
    ELSE (IF Truthy(GetBlockText(Head(blocks))) THEN <<GetBlockText(Head(blocks))>> ELSE <<>>)
         \o TruthyTexts(Tail(blocks))

\* lines 45-53 testing the structured field for truth instead of for None
StructuredContentFallbackTruthy(sc, multi) ==
    IF Truthy(sc)
    THEN IF sc.t \in {"obj", "arr"} THEN Return(sc)
         ELSE IF sc.t = "str"
              THEN LET r == JsonLoads(sc.s)
                   IN  IF r.ok THEN Return(r.v)
                       ELSE Return(Obj(<< <<KeyRaw, sc>> >>))
              ELSE multi
    ELSE multi

\* lines 45-53: the structuredContent fallback; `multi` is what lines 55-63
\* give when it falls through
StructuredContentFallback(sc, multi) ==
    IF sc.t # "none"
    THEN IF sc.t \in {"obj", "arr"} THEN Return(sc)
         ELSE IF sc.t = "str"
              THEN LET r == JsonLoads(sc.s)
                   IN  IF r.ok THEN Return(r.v)
                       ELSE Return(Obj(<< <<KeyRaw, sc>> >>))
              ELSE multi
    ELSE multi

\* _parse_tool_result(result), geotemp_fetch_mcp.py lines 31-63
ParseToolResult(result) ==
    IF result.t = "none" THEN Return(None)
    ELSE
    LET content == Attr(result, "content")
        sc == Attr(result, "structuredContent")
        text == IF Truthy(content) THEN GetBlockText(content.a[1]) ELSE None
        multi == IF Truthy(content) THEN FirstParsed(TruthyTexts(content.a))
                 ELSE Return(None)
    IN  IF Truthy(content) /\ Truthy(text)
        THEN IF text.t # "str" THEN Raise("TypeError")
             ELSE LET r == JsonLoads(text.s)
                  IN  IF r.ok THEN Return(r.v)
                      ELSE Return(Obj(<< <<KeyRaw, Str(Take(text.s, RawLimit))>> >>))
        ELSE StructuredContentFallback(sc, multi)

\* ---- inputs of the normalizer
JsonChars == {"[", "]", "{", "}", "\"", ":", ",", "1", "a"}

JsonAtoms == {None, Bool(TRUE), Num(10), Str(<<"a">>)}
JsonKeys == {<<"a">>, <<"I", "D">>}

\* lists and dicts of at most two atoms
JsonFlat ==
    {Arr(a) : a \in SeqUpTo(JsonAtoms, 2)}
    \cup {Obj(<<>>)}
    \cup {Obj(<< <<k, v>> >>) : k \in JsonKeys, v \in JsonAtoms}
    \cup {Obj(<< <<p[1], v1>>, <<p[2], v2>> >>) :
            p \in {q \in JsonKeys \X JsonKeys : q[1] # q[2]},
            v1 \in JsonAtoms, v2 \in JsonAtoms}

\* lists and dicts holding one of those
JsonNested ==
    {Arr(<<c>>) : c \in JsonFlat}
    \cup {Arr(<<x, c>>) : x \in JsonAtoms, c \in JsonFlat}
    \cup {Obj(<< <<k, c>> >>) : k \in JsonKeys, c \in JsonFlat}

JsonContainers == JsonFlat \cup JsonNested
JsonValues == JsonAtoms \cup JsonContainers

\* a text longer than the raw fallback keeps
LongText == [i \in 1..(RawLimit + 1) |-> "x"]

BlockTexts ==
    SeqUpTo(JsonChars, MaxTextLen)
    \cup {JsonDumps(v) : v \in JsonValues}
    \cup {LongText}

\* texts used where blocks or fields are combined
FewTexts == {<<>>, <<"a">>, <<"[", "1", "]">>, <<"{", "}">>, <<"1">>}

\* the text field of a block: a str, None, or a number
FewTextValues == {Str(s) : s \in FewTexts} \cup {None, Num(0), Num(5)}

\* a block in each of the three access patterns, and blocks with no text
BlocksOf(x) ==
    { Obj(<< <<KeyText, x>> >>), TextObject(x), DumpObject(Obj(<< <<KeyText, x>> >>)) }
OtherBlocks == { None, Obj(<<>>), DumpObject(Obj(<<>>)), PlainObject }

FirstBlocks ==
    {Obj(<< <<KeyText, Str(s)>> >>) : s \in BlockTexts}
    \cup UNION {BlocksOf(Str(JsonDumps(v))) : v \in JsonFlat}
    \cup UNION {BlocksOf(x) : x \in FewTextValues}
    \cup OtherBlocks

LaterBlocks ==
    {Obj(<< <<KeyText, x>> >>) : x \in FewTextValues} \cup {None, PlainObject}

Contents ==
    {None, Arr(<<>>)}
    \cup {Arr(<<b>>) : b \in FirstBlocks}
    \cup {Arr(<<b1, b2>>) :
            b1 \in {Obj(<< <<KeyText, x>> >>) : x \in FewTextValues} \cup {None},
            b2 \in LaterBlocks}

StructuredContents ==
    {None, Obj(<< <<<<"a">>, Num(10)>> >>), Obj(<<>>), Arr(<<Num(10)>>),
     Str(<<"[", "1", "]">>), Str(<<"a">>), Num(7)}

NormInputs ==
    {None}
    \cup {Result(c, sc) : c \in Contents, sc \in StructuredContents}
    \cup JsonFlat

InitNorm ==
    /\ norm_in \in NormInputs
    /\ norm_out = [k |-> "pending"]
    /\ norm_again = [k |-> "pending"]
    /\ npc = "call"

CallParseToolResult ==
    /\ npc = "call"
    /\ norm_out' = ParseToolResult(norm_in)
    /\ npc' = "done"
    /\ UNCHANGED <<norm_in, norm_again>>
    /\ UNCHANGED notNorm

\* the value returned is normalized again, as it stands
Renormalize ==
    /\ npc = "done"
    /\ norm_out.k = "return"
    /\ norm_again' = ParseToolResult(norm_out.v)
    /\ npc' = "again"
    /\ UNCHANGED <<norm_in, norm_out>>
    /\ UNCHANGED notNorm

\* the value returned is normalized again, carried as the structuredContent
\* of a result without content
RenormalizeWrapped ==
    /\ npc = "done"
    /\ norm_out.k = "return"
    /\ norm_again' = ParseToolResult(Result(None, norm_out.v))
    /\ npc' = "wrapped"
    /\ UNCHANGED <<norm_in, norm_out>>
    /\ UNCHANGED notNorm

NextNorm ==
    \/ CallParseToolResult
    \/ Renormalize
    \/ RenormalizeWrapped

\* ------------------------------------------------------------- str methods
\* sub in s
Contains(s, sub) == \E i \in 1..Len(s) : MatchAt(s, i, sub)

\* s.index(sub) and s.rindex(sub) as 1-based positions, for sub in s
IndexOf(s, sub) ==
    CHOOSE i \in 1..Len(s) :
        MatchAt(s, i, sub) /\ \A j \in 1..(i - 1) : ~MatchAt(s, j, sub)
RIndexOf(s, sub) ==
    CHOOSE i \in 1..Len(s) :
        MatchAt(s, i, sub) /\ \A j \in (i + 1)..Len(s) : ~MatchAt(s, j, sub)

\* s.split(sep)[0]
SplitFirst(s, sep) ==
    IF Contains(s, sep) THEN SubSeq(s, 1, IndexOf(s, sep) - 1) ELSE s

\* s.strip()
RECURSIVE LStrip(_)
LStrip(s) ==
    IF s # <<>> /\ IsWhitespace(Head(s)) THEN LStrip(Tail(s)) ELSE s
RECURSIVE RStrip(_)
RStrip(s) ==
    IF s # <<>> /\ IsWhitespace(s[Len(s)])
    THEN RStrip(SubSeq(s, 1, Len(s) - 1)) ELSE s
Strip(s) == RStrip(LStrip(s))

\* s.endswith(sub)
EndsWith(s, sub) == Len(sub) <= Len(s) /\ MatchAt(s, Len(s) - Len(sub) + 1, sub)

\* ------------------------------------------------------------------- dates
\* date.isoformat() of day number d of 2026 as <<year, month, day>>, the
\* three numbers the text YYYY-MM-DD writes between its dashes
MonthLengths == <<31, 28, 31, 30, 31, 30, 31, 31, 30, 31, 30, 31>>
RECURSIVE MonthDay(_, _)
MonthDay(d, m) ==
    IF d < MonthLengths[m] THEN <<m, d + 1>> ELSE MonthDay(d - MonthLengths[m], m + 1)
IsoFormat(d) == <<2026>> \o MonthDay(d, 1)

\* ----------------------------------------------- lodging: destination names
\* lines 224-228: the destination city of a candidate
DestCity(destinationFull) ==
    IF Contains(destinationFull, <<",">>)
    THEN Strip(SplitFirst(destinationFull, <<",">>))
    ELSE destinationFull

\* _city_name_for_trivago(destination), lines 159-164
CityNameForTrivago(destination) ==
    LET s == Strip(destination)
    IN  IF Contains(s, <<" ", "(">>) /\ EndsWith(s, <<")">>)
        THEN Strip(SubSeq(s, 1, RIndexOf(s, <<" ", "(">>) - 1))
        ELSE s

\* _trivago_query_for_destination(destination_city), lines 167-173
TrivagoQueryForDestination(destination_city) ==
    LET city_only == CityNameForTrivago(destination_city)
    IN  <<city_only>> \o
        (IF Contains(city_only, <<" ", "-", " ">>)
         THEN <<Strip(SplitFirst(city_only, <<" ", "-", " ">>))>>
         ELSE <<>>)

\* lines 222-231 with the two dates of the stay exchanged
TaskDatesSwapped(c) ==
    [dest_city |-> DestCity(c[1].destinationFull),
     arrival |-> IsoFormat(c[2].departureTime.date),
     departure |-> IsoFormat(c[1].departureTime.date),
     outbound |-> c[1], return_flight |-> c[2], price |-> c[3]]

\* lines 222-231: the task of one candidate (outbound, return_flight, price)
Task(c) ==
    [dest_city |-> DestCity(c[1].destinationFull),
     arrival |-> IsoFormat(c[1].departureTime.date),
     departure |-> IsoFormat(c[2].departureTime.date),
     outbound |-> c[1], return_flight |-> c[2], price |-> c[3]]
Tasks(flights) == [i \in DOMAIN flights |-> Task(flights[i])]

\* lines 243-251 with the two legs exchanged
HotelRecordLegsSwapped(task, hotels) ==
    [destination |-> task.dest_city, arrival |-> task.arrival,
     departure |-> task.departure, flight |-> task.return_flight,
     return_flight |-> task.outbound, price |-> task.price,
     hotels |-> hotels]

\* lines 243-251: the record appended for one task
HotelRecord(task, hotels) ==
    [destination |-> task.dest_city, arrival |-> task.arrival,
     departure |-> task.departure, flight |-> task.outbound,
     return_flight |-> task.return_flight, price |-> task.price,
     hotels |-> hotels]

\* ------------------------------------------ lodging: the cheapest offers
RECURSIVE Pow10(_)
Pow10(e) == IF e = 0 THEN 1 ELSE 10 * Pow10(e - 1)

\* a < b for two floats
FloatLess(a, b) ==
    IF a.k = "inf" THEN FALSE
    ELSE IF b.k = "inf" THEN TRUE
    ELSE a.num * Pow10(b.exp) < b.num * Pow10(a.exp)

\* sorted(hotels, key=_parse_price_night): stable
\* an insertion that puts an offer before the offers of equal price
RECURSIVE InsertByPriceBeforeEqual(_, _)
InsertByPriceBeforeEqual(sorted, h) ==
    IF sorted = <<>> THEN <<h>>
    ELSE IF ~FloatLess(ParsePriceNight(Head(sorted)), ParsePriceNight(h))
         THEN <<h>> \o sorted
         ELSE <<Head(sorted)>> \o InsertByPriceBeforeEqual(Tail(sorted), h)

RECURSIVE InsertByPrice(_, _)
InsertByPrice(sorted, h) ==
    IF sorted = <<>> THEN <<h>>
    ELSE IF FloatLess(ParsePriceNight(h), ParsePriceNight(Head(sorted)))
         THEN <<h>> \o sorted
         ELSE <<Head(sorted)>> \o InsertByPrice(Tail(sorted), h)
RECURSIVE SortedByPrice(_)
SortedByPrice(hotels) ==
    IF hotels = <<>> THEN <<>>
    ELSE InsertByPrice(SortedByPrice(SubSeq(hotels, 1, Len(hotels) - 1)),
                       hotels[Len(hotels)])

\* lines 203-206 with the parsed price stored on the offer
TopHotelsPriceStored(hotels, n) ==
    IF hotels = <<>> THEN Return(<<>>)
    ELSE IF \E i \in DOMAIN hotels : ParsePriceNight(hotels[i]).k = "raise"
    THEN Raise("AttributeError")
    ELSE Return([i \in DOMAIN Take(SortedByPrice(hotels), n) |->
                    Take(SortedByPrice(hotels), n)[i]
                       @@ ("price_night" :> ParsePriceNight(Take(SortedByPrice(hotels), n)[i]))])
\* lines 203-206: the n cheapest of a non-empty answer; the key function
\* raising ends the sort with that exception
TopHotels(hotels, n) ==
    IF hotels = <<>> THEN Return(<<>>)
    ELSE IF \E i \in DOMAIN hotels : ParsePriceNight(hotels[i]).k = "raise"
    THEN Raise("AttributeError")
    ELSE Return(Take(SortedByPrice(hotels), n))

\* ------------------------------------- fetch_hotels_for_cheapest_flights
\* defaults of run(): hotels_per_flight, adults, rooms
hotels_per_flight == 3
adults == 2
rooms == 1

\* what get_location_suggestion returns: None or an (id, ns) tuple
LocationKey(id, ns) == [t |-> "tuple", id |-> id, ns |-> ns]
SuggestionReturns == {None, LocationKey(3848, 200), LocationKey(12, 3)}

\* what search_accommodations returns: a list of offers
Hotel(name, price) ==
    ("Accommodation Name" :> Str(<<name>>)) @@ ("Price Per Night" :> price)
AccommodationReturns ==
    { <<>>,
      <<Hotel("P", Str(<<"€", "7", "7">>)), Hotel("Q", Str(<<"€", "7">>)),
        Hotel("R", Str(<<"7", ",", "0">>))>>,
      <<Hotel("P", Str(<<"n">>)), Hotel("Q", None),
        Hotel("R", Str(<<"7", "7">>)), Hotel("S", Str(<<"1", "0">>))>>,
      <<Hotel("P", Num(77))>> }

\* candidates of the search for the enrichment: trips from the first origin
\* leaving on a Thursday and on a Friday at a month's end
StartDates == {0, 29}
EnrichPool ==
    UNION { { Candidate(t, ORIGIN_AIRPORTS[1][1], ORIGIN_AIRPORTS[1][2]) :
                t \in { u \in ProviderTrips(ORIGIN_AIRPORTS[1][1], d, TimeTo, TimeTo,
                                            d + RETURN_DAYS_MIN, d + RETURN_DAYS_MIN) :
                          u.outbound.price = 10 } } :
            d \in StartDates }

\* outbound_flights[:num_cheapest_flights]: a prefix of the sorted search result
CheapestFlightLists ==
    { l \in SeqUpTo(EnrichPool, MaxCands) : SortByKey(l) = l }

\* the remote calls of the lodging provider as the history records them
Raised == [t |-> "raised"]
SuggestionCall(query, i, out) ==
    [tool |-> "trivago-search-suggestions", args |-> [query |-> query],
     cand |-> i, result |-> out]
\* lines 194-196 with location_id and location_ns exchanged
AccommodationCallSwapped(key, task, i, out) ==
    [tool |-> "trivago-accommodation-search",
     args |-> [id |-> key.ns, ns |-> key.id, arrival |-> task.arrival,
               departure |-> task.departure, adults |-> adults, rooms |-> rooms],
     cand |-> i, result |-> out]
AccommodationCall(key, task, i, out) ==
    [tool |-> "trivago-accommodation-search",
     args |-> [id |-> key.id, ns |-> key.ns, arrival |-> task.arrival,
               departure |-> task.departure, adults |-> adults, rooms |-> rooms],
     cand |-> i, result |-> out]

GeoIdle ==
    /\ wi = 0
    /\ dests_left = {}
    /\ weather_by_key = <<>>
    /\ attractions_by_dest = <<>>
    /\ travel_data = None

\* run() at line 652: the candidates are chosen, nothing is fetched yet.
\* epc: "search" (line 647, in a whole run) | "start" (line 654) |
\* "hotels" (the loop of line 238) | "geotemp"
\* (line 671) | "weather" (line 297) | "attractions" (line 310) | "done"
\* (line 681) | "aborted" (an exception left run())
InitHotels ==
    /\ cheapest_flights \in CheapestFlightLists
    /\ num_cheapest_flights = 10
    /\ fetch_hotels \in BOOLEAN
    /\ TRIVAGO_AVAILABLE \in BOOLEAN
    /\ GEOTEMP_AVAILABLE \in BOOLEAN
    /\ ti = 0
    /\ qi = 0
    /\ suggestion = None
    /\ results = <<>>
    /\ hotel_results = <<>>
    /\ GeoIdle
    /\ epc = "start"
    /\ rlog = <<>>
    /\ failed = {}

\* line 654: fetch_hotels and TRIVAGO_AVAILABLE and cheapest_flights
LodgingWanted ==
    fetch_hotels /\ TRIVAGO_AVAILABLE /\ cheapest_flights # <<>>

\* line 654 false: no lodging is fetched
SkipHotels ==
    /\ epc = "start"
    /\ ~LodgingWanted
    /\ epc' = "geotemp"
    /\ UNCHANGED <<cheapest_flights, fetch_hotels, hotel_results, rlog>>
    /\ UNCHANGED lodgingVars
    /\ UNCHANGED geoVars
    /\ UNCHANGED notEnrich

\* lines 654-237: the tasks are built and the session is opened
EnterHotels ==
    /\ epc = "start"
    /\ LodgingWanted
    /\ epc' = "hotels"
    /\ ti' = 1
    /\ qi' = 1
    /\ UNCHANGED <<cheapest_flights, fetch_hotels, hotel_results, rlog,
                   suggestion, results, failed>>
    /\ UNCHANGED geoVars
    /\ UNCHANGED notEnrich

\* lines 234-237: opening the session raises; nothing catches it
ConnectRaises ==
    /\ epc = "start"
    /\ LodgingWanted
    /\ epc' = "aborted"
    /\ UNCHANGED <<cheapest_flights, fetch_hotels, hotel_results, rlog>>
    /\ UNCHANGED lodgingVars
    /\ UNCHANGED geoVars
    /\ UNCHANGED notEnrich

\* the loop of lines 186-191 is at query qi of task ti
AtLookup ==
    /\ epc = "hotels"
    /\ ti <= Len(cheapest_flights)
    /\ suggestion = None

\* lines 188-192 without the test of line 192: unpacking None raises
AfterLookupUnguarded(out, task, queries) ==
    IF out # None
    THEN /\ suggestion' = out
         /\ UNCHANGED <<ti, qi, results, epc, failed>>
    ELSE IF qi < Len(queries)
    THEN /\ qi' = qi + 1
         /\ UNCHANGED <<ti, suggestion, results, epc, failed>>
    ELSE /\ epc' = "aborted"
         /\ failed' = failed \cup {<<ti, "unpack">>}
         /\ UNCHANGED <<ti, qi, suggestion, results>>

\* lines 188-192 without the break of line 189: the next query is tried
\* after a lookup that found a location
AfterLookupNoBreak(out, task, queries) ==
    IF qi < Len(queries)
    THEN /\ qi' = qi + 1
         /\ suggestion' = None
         /\ UNCHANGED <<ti, results, epc, failed>>
    ELSE IF out # None
    THEN /\ suggestion' = out
         /\ UNCHANGED <<ti, qi, results, epc, failed>>
    ELSE /\ results' = Append(results, HotelRecord(task, <<>>))
         /\ ti' = ti + 1
         /\ qi' = 1
         /\ UNCHANGED <<suggestion, epc, failed>>

\* lines 188-192 and 243-251: what follows a lookup that returned `out`: the
\* search when a location was found, the next query when there is one, the
\* record without offers otherwise
AfterLookup(out, task, queries) ==
    IF out # None
    THEN /\ suggestion' = out
         /\ UNCHANGED <<ti, qi, results, epc, failed>>
    ELSE IF qi < Len(queries)
    THEN /\ qi' = qi + 1
         /\ UNCHANGED <<ti, suggestion, results, epc, failed>>
    ELSE /\ results' = Append(results, HotelRecord(task, <<>>))
         /\ ti' = ti + 1
         /\ qi' = 1
         /\ UNCHANGED <<suggestion, epc, failed>>

\* lines 186-191: one get_location_suggestion call that returns
GetLocationSuggestion ==
    /\ AtLookup
    /\ LET task == Tasks(cheapest_flights)[ti]
           queries == TrivagoQueryForDestination(task.dest_city)
       IN  \E out \in SuggestionReturns :
              /\ rlog' = Append(rlog, SuggestionCall(queries[qi], ti, out))
              /\ AfterLookup(out, task, queries)
    /\ UNCHANGED <<cheapest_flights, fetch_hotels, hotel_results>>
    /\ UNCHANGED geoVars
    /\ UNCHANGED notEnrich

\* line 187 raises: no handler in _top_hotels_for_destination, in
\* fetch_hotels_for_cheapest_flights or around line 658 of run()
GetLocationSuggestionRaises ==
    /\ AtLookup
    /\ LET task == Tasks(cheapest_flights)[ti]
           queries == TrivagoQueryForDestination(task.dest_city)
       IN  rlog' = Append(rlog, SuggestionCall(queries[qi], ti, Raised))
    /\ failed' = failed \cup {<<ti, "lookup">>}
    /\ epc' = "aborted"
    /\ UNCHANGED <<cheapest_flights, fetch_hotels, hotel_results, ti, qi,
                   suggestion, results>>
    /\ UNCHANGED geoVars
    /\ UNCHANGED notEnrich

AtSearch ==
    /\ epc = "hotels"
    /\ ti <= Len(cheapest_flights)
    /\ suggestion # None

\* lines 194-206 and 243-251: search_accommodations returns, the cheapest
\* offers are kept and the record is appended; a sort key that raises
\* leaves run() like any other exception
SearchAccommodations ==
    /\ AtSearch
    /\ LET task == Tasks(cheapest_flights)[ti]
       IN  \E hotels \in AccommodationReturns :
              /\ rlog' = Append(rlog, AccommodationCall(suggestion, task, ti, Return(hotels)))
              /\ LET top == TopHotels(hotels, hotels_per_flight)
                IN  IF top.k = "raise"
                    THEN /\ epc' = "aborted"
                         /\ failed' = failed \cup {<<ti, "sort">>}
                         /\ UNCHANGED <<ti, qi, suggestion, results>>
                    ELSE /\ results' = Append(results, HotelRecord(task, top.v))
                         /\ ti' = ti + 1
                         /\ qi' = 1
                         /\ suggestion' = None
                         /\ UNCHANGED <<epc, failed>>
    /\ UNCHANGED <<cheapest_flights, fetch_hotels, hotel_results>>
    /\ UNCHANGED geoVars
    /\ UNCHANGED notEnrich

\* line 194 raises
SearchAccommodationsRaises ==
    /\ AtSearch
    /\ rlog' = Append(rlog, AccommodationCall(suggestion, Tasks(cheapest_flights)[ti], ti,
                                          Raise("Exception")))
    /\ failed' = failed \cup {<<ti, "search">>}
    /\ epc' = "aborted"
    /\ UNCHANGED <<cheapest_flights, fetch_hotels, hotel_results, ti, qi,
                   suggestion, results>>
    /\ UNCHANGED geoVars
    /\ UNCHANGED notEnrich

\* lines 252 and 658: every task is done and run() receives the list
ReturnHotels ==
    /\ epc = "hotels"
    /\ ti > Len(cheapest_flights)
    /\ hotel_results' = results
    /\ epc' = "geotemp"
    /\ UNCHANGED <<cheapest_flights, fetch_hotels, rlog>>
    /\ UNCHANGED lodgingVars
    /\ UNCHANGED geoVars
    /\ UNCHANGED notEnrich

NextHotels ==
    \/ SkipHotels
    \/ EnterHotels
    \/ ConnectRaises
    \/ GetLocationSuggestion
    \/ GetLocationSuggestionRaises
    \/ SearchAccommodations
    \/ SearchAccommodationsRaises
    \/ ReturnHotels

\* ------------------------------------------------ _fetch_geotemp_for_trips
\* the text of a destination code
CodeChars(c) ==
    CASE c = "AGP" -> <<"A", "G", "P">>
      [] c = "BCN" -> <<"B", "C", "N">>
      [] OTHER -> <<>>

\* _dest_city_from_flight(ob), lines 255-260
DestCityFromFlight(ob) ==
    LET dest_full == ob.destinationFull
    IN  IF Contains(dest_full, <<",">>)
        THEN Strip(SplitFirst(dest_full, <<",">>))
        ELSE IF Strip(dest_full) # <<>> THEN Strip(dest_full)
        ELSE CodeChars(ob.destination)

\* lines 273-287: weather_keys, from the lodging records when there are any
WeatherKeys(flights, records) ==
    IF records # <<>>
    THEN [i \in DOMAIN records |->
            <<records[i].destination, records[i].arrival, records[i].departure>>]
    ELSE [i \in DOMAIN flights |->
            <<DestCityFromFlight(flights[i][1]),
              IsoFormat(flights[i][1].departureTime.date),
              IsoFormat(flights[i][2].departureTime.date)>>]

\* lines 274-287: destinations
Destinations(flights, records) ==
    {WeatherKeys(flights, records)[i][1] : i \in DOMAIN WeatherKeys(flights, records)}

\* lines 300 and 312: the name sent to the provider
DestApi(dest) ==
    IF Contains(dest, <<" ", "-", " ">>)
    THEN Strip(SplitFirst(dest, <<" ", "-", " ">>))
    ELSE dest

\* line 303: int(start_iso.split("-")[1])
MonthOf(start_iso) == start_iso[2]

\* a dict keyed by tuples or texts: its items <<key, value>> in insertion order
HasKey(d, key) == \E x \in DOMAIN d : d[x][1] = key
SetItem(d, key, v) ==
    IF HasKey(d, key)
    THEN [x \in DOMAIN d |-> IF d[x][1] = key THEN <<key, v>> ELSE d[x]]
    ELSE Append(d, <<key, v>>)

KeyDays == <<"d", "a", "y", "s">>
KeyWeather == <<"w", "e", "a", "t", "h", "e", "r">>
KeyAttractions == <<"a", "t", "t", "r", "a", "c", "t", "i", "o", "n", "s">>
KeyItems == <<"i", "t", "e", "m", "s">>

\* key in data, for a dict data
InDict(data, key) == \E x \in DOMAIN data.o : data.o[x][1] = key

\* get_weather, geotemp_fetch_mcp.py lines 81-87: what is returned for the
\* outcome r of _parse_tool_result
WeatherOfData(r) ==
    IF r.k = "raise" THEN r
    ELSE IF r.v.t = "arr" THEN Return(r.v)
    ELSE IF r.v.t = "obj" /\ InDict(r.v, KeyDays) THEN Return(DictGet(r.v, KeyDays))
    ELSE IF r.v.t = "obj" /\ InDict(r.v, KeyWeather) THEN Return(DictGet(r.v, KeyWeather))
    ELSE IF r.v.t \in {"arr", "obj"} THEN Return(r.v)
    ELSE Return(None)

\* get_weather, geotemp_fetch_mcp.py lines 80-87, applied to the tool result
GetWeather(result) == WeatherOfData(ParseToolResult(result))

\* get_attractions, geotemp_fetch_mcp.py lines 101-107: what is returned
\* for the outcome r of _parse_tool_result
AttractionsOfData(r) ==
    IF r.k = "raise" THEN r
    ELSE IF r.v.t = "arr" THEN Return(r.v)
    ELSE IF r.v.t = "obj" /\ InDict(r.v, KeyAttractions)
    THEN Return(DictGet(r.v, KeyAttractions))
    ELSE IF r.v.t = "obj" /\ InDict(r.v, KeyItems) THEN Return(DictGet(r.v, KeyItems))
    ELSE Return(None)

\* get_attractions, geotemp_fetch_mcp.py lines 100-107
GetAttractions(result) == AttractionsOfData(ParseToolResult(result))

\* lines 308 and 314: w if isinstance(w, list) else ([w] if w else [])
AsList(w) ==
    IF w.t = "arr" THEN w
    ELSE IF Truthy(w) THEN Arr(<<w>>) ELSE Arr(<<>>)

\* tool results the weather provider may send: a list, a dict with "days",
\* a text that is no JSON, nothing, a block whose text is a number
WeatherResults ==
    { Result(None, Arr(<<Num(20)>>)),
      Result(None, Obj(<< <<KeyDays, Arr(<<Num(21)>>)>> >>)),
      Result(Arr(<<TextObject(Str(<<"x">>))>>), None),
      Result(Arr(<<>>), None),
      Result(Arr(<<Obj(<< <<KeyText, Num(5)>> >>)>>), None) }

\* tool results the attraction provider may send
AttractionResults ==
    { Result(None, Arr(<<Str(<<"m">>)>>)),
      Result(None, Obj(<< <<KeyItems, Arr(<<Str(<<"z">>)>>)>> >>)),
      Result(None, Str(<<"x">>)),
      Result(Arr(<<Obj(<< <<KeyText, Num(5)>> >>)>>), None) }

\* the remote calls of the weather provider as the history records them;
\* cand is the position in weather_keys, 0 for the loop over destinations
WeatherCall(key, i) ==
    [tool |-> "get_weather",
     args |-> [city_name |-> DestApi(key[1]), month |-> MonthOf(key[2])],
     cand |-> i, key |-> key]
AttractionCall(dest) ==
    [tool |-> "get_attractions",
     args |-> [city_name |-> DestApi(dest), limit |-> 10],
     cand |-> 0, key |-> <<dest>>]

\* the history of a lodging phase in which no lookup found a location
LookupsOf(queries, i) ==
    [k \in DOMAIN queries |-> SuggestionCall(queries[k], i, None)]
RECURSIVE NoSuggestionLog(_, _)
NoSuggestionLog(flights, i) ==
    IF i > Len(flights) THEN <<>>
    ELSE LookupsOf(TrivagoQueryForDestination(Tasks(flights)[i].dest_city), i)
         \o NoSuggestionLog(flights, i + 1)

\* run() at line 671: the lodging phase is over, either skipped or ended
\* with a record without offers for every candidate
InitGeotemp ==
    /\ cheapest_flights \in CheapestFlightLists
    /\ num_cheapest_flights = 10
    /\ fetch_hotels \in BOOLEAN
    /\ TRIVAGO_AVAILABLE \in BOOLEAN
    /\ GEOTEMP_AVAILABLE \in BOOLEAN
    /\ IF LodgingWanted
       THEN /\ ti = Len(cheapest_flights) + 1
            /\ qi = 1
            /\ results = [i \in DOMAIN cheapest_flights |->
                            HotelRecord(Tasks(cheapest_flights)[i], <<>>)]
            /\ rlog = NoSuggestionLog(cheapest_flights, 1)
       ELSE /\ ti = 0
            /\ qi = 0
            /\ results = <<>>
            /\ rlog = <<>>
    /\ hotel_results = results
    /\ suggestion = None
    /\ failed = {}
    /\ GeoIdle
    /\ epc = "geotemp"

\* line 671: GEOTEMP_AVAILABLE and (cheapest_flights or hotel_results)
GeotempWanted ==
    GEOTEMP_AVAILABLE /\ (cheapest_flights # <<>> \/ hotel_results # <<>>)

\* line 671 false: no weather and no attractions are fetched
SkipGeotemp ==
    /\ epc = "geotemp"
    /\ ~GeotempWanted
    /\ epc' = "done"
    /\ UNCHANGED <<cheapest_flights, fetch_hotels, hotel_results, rlog>>
    /\ UNCHANGED lodgingVars
    /\ UNCHANGED geoVars
    /\ UNCHANGED notEnrich

\* lines 671-296: the keys are collected and the session is opened
EnterGeotemp ==
    /\ epc = "geotemp"
    /\ GeotempWanted
    /\ epc' = "weather"
    /\ wi' = 1
    /\ dests_left' = Destinations(cheapest_flights, hotel_results)
    /\ UNCHANGED <<cheapest_flights, fetch_hotels, hotel_results, rlog>>
    /\ UNCHANGED lodgingVars
    /\ UNCHANGED <<weather_by_key, attractions_by_dest, travel_data>>
    /\ UNCHANGED notEnrich

\* lines 293-296 raise: caught at line 315, the function returns None
GeotempConnectRaises ==
    /\ epc = "geotemp"
    /\ GeotempWanted
    /\ epc' = "done"
    /\ travel_data' = None
    /\ failed' = failed \cup {<<0, "connect">>}
    /\ UNCHANGED <<cheapest_flights, fetch_hotels, hotel_results, rlog>>
    /\ UNCHANGED <<ti, qi, suggestion, results>>
    /\ UNCHANGED <<wi, dests_left, weather_by_key, attractions_by_dest>>
    /\ UNCHANGED notEnrich

\* line 299 never finding the key
InWeatherCacheNever(key) == FALSE

\* line 299: key in weather_by_key
InWeatherCache(key) == HasKey(weather_by_key, key)

AtWeather ==
    /\ epc = "weather"
    /\ wi <= Len(WeatherKeys(cheapest_flights, hotel_results))

\* lines 297-308: one iteration of the loop over weather_keys in which no
\* call raises a transport error; an exception inside get_weather is caught
\* at line 315
WeatherStep ==
    /\ AtWeather
    /\ LET key == WeatherKeys(cheapest_flights, hotel_results)[wi]
       IN  IF InWeatherCache(key)
           THEN /\ wi' = wi + 1
                /\ UNCHANGED <<weather_by_key, travel_data, epc, rlog, failed>>
           ELSE /\ rlog' = Append(rlog, WeatherCall(key, wi))
                /\ \E w \in {GetWeather(result) : result \in WeatherResults} :
                         IF w.k = "raise"
                         THEN /\ epc' = "done"
                              /\ travel_data' = None
                              /\ failed' = failed \cup {<<wi, "parse">>}
                              /\ UNCHANGED <<wi, weather_by_key>>
                         ELSE /\ weather_by_key' = SetItem(weather_by_key, key, AsList(w.v))
                              /\ wi' = wi + 1
                              /\ UNCHANGED <<travel_data, epc, failed>>
    /\ UNCHANGED <<cheapest_flights, fetch_hotels, hotel_results>>
    /\ UNCHANGED <<ti, qi, suggestion, results>>
    /\ UNCHANGED <<dests_left, attractions_by_dest>>
    /\ UNCHANGED notEnrich

\* line 305 raising with no handler at lines 315-317 and 677-679
WeatherCallRaisesUncaught ==
    /\ AtWeather
    /\ LET key == WeatherKeys(cheapest_flights, hotel_results)[wi]
       IN  /\ ~InWeatherCache(key)
           /\ rlog' = Append(rlog, WeatherCall(key, wi))
    /\ epc' = "aborted"
    /\ failed' = failed \cup {<<wi, "get_weather">>}
    /\ UNCHANGED <<cheapest_flights, fetch_hotels, hotel_results, travel_data>>
    /\ UNCHANGED <<ti, qi, suggestion, results>>
    /\ UNCHANGED <<wi, dests_left, weather_by_key, attractions_by_dest>>
    /\ UNCHANGED notEnrich

\* line 305: the call raises; caught at line 315
WeatherCallRaises ==
    /\ AtWeather
    /\ LET key == WeatherKeys(cheapest_flights, hotel_results)[wi]
       IN  /\ ~InWeatherCache(key)
           /\ rlog' = Append(rlog, WeatherCall(key, wi))
    /\ epc' = "done"
    /\ travel_data' = None
    /\ failed' = failed \cup {<<wi, "get_weather">>}
    /\ UNCHANGED <<cheapest_flights, fetch_hotels, hotel_results>>
    /\ UNCHANGED <<ti, qi, suggestion, results>>
    /\ UNCHANGED <<wi, dests_left, weather_by_key, attractions_by_dest>>
    /\ UNCHANGED notEnrich

AtAttractions ==
    /\ epc = "weather"
    /\ wi > Len(WeatherKeys(cheapest_flights, hotel_results))
    /\ dests_left # {}

\* lines 310-314: one iteration of the loop over the set destinations, whose
\* order is any
AttractionStep ==
    /\ AtAttractions
    /\ \E dest \in dests_left :
         /\ dests_left' = dests_left \ {dest}
         /\ IF HasKey(attractions_by_dest, dest)
            THEN UNCHANGED <<attractions_by_dest, travel_data, epc, rlog, failed>>
            ELSE /\ rlog' = Append(rlog, AttractionCall(dest))
                 /\ \E a \in {GetAttractions(result) : result \in AttractionResults} :
                          IF a.k = "raise"
                          THEN /\ epc' = "done"
                               /\ travel_data' = None
                               /\ failed' = failed \cup {<<0, "parse">>}
                               /\ UNCHANGED attractions_by_dest
                          ELSE /\ attractions_by_dest' =
                                     SetItem(attractions_by_dest, dest, AsList(a.v))
                               /\ UNCHANGED <<travel_data, epc, failed>>
    /\ UNCHANGED <<cheapest_flights, fetch_hotels, hotel_results>>
    /\ UNCHANGED <<ti, qi, suggestion, results>>
    /\ UNCHANGED <<wi, weather_by_key>>
    /\ UNCHANGED notEnrich

\* the dict of line 318
TravelData(weather, attractions) ==
    [t |-> "travel_data", weather |-> weather, attractions |-> attractions]

\* line 313 raising with the handler of line 315 returning the maps filled
\* so far
AttractionCallRaisesPartial ==
    /\ AtAttractions
    /\ \E dest \in dests_left :
         /\ ~HasKey(attractions_by_dest, dest)
         /\ rlog' = Append(rlog, AttractionCall(dest))
    /\ epc' = "done"
    /\ travel_data' = TravelData(weather_by_key, attractions_by_dest)
    /\ failed' = failed \cup {<<0, "get_attractions">>}
    /\ UNCHANGED <<cheapest_flights, fetch_hotels, hotel_results>>
    /\ UNCHANGED <<ti, qi, suggestion, results>>
    /\ UNCHANGED <<wi, dests_left, weather_by_key, attractions_by_dest>>
    /\ UNCHANGED notEnrich

\* line 313: the call raises; caught at line 315
AttractionCallRaises ==
    /\ AtAttractions
    /\ \E dest \in dests_left :
         /\ ~HasKey(attractions_by_dest, dest)
         /\ rlog' = Append(rlog, AttractionCall(dest))
    /\ epc' = "done"
    /\ travel_data' = None
    /\ failed' = failed \cup {<<0, "get_attractions">>}
    /\ UNCHANGED <<cheapest_flights, fetch_hotels, hotel_results>>
    /\ UNCHANGED <<ti, qi, suggestion, results>>
    /\ UNCHANGED <<wi, dests_left, weather_by_key, attractions_by_dest>>
    /\ UNCHANGED notEnrich

\* lines 318 and 676: both loops are done
ReturnGeotemp ==
    /\ epc = "weather"
    /\ wi > Len(WeatherKeys(cheapest_flights, hotel_results))
    /\ dests_left = {}
    /\ travel_data' = TravelData(weather_by_key, attractions_by_dest)
    /\ epc' = "done"
    /\ UNCHANGED <<cheapest_flights, fetch_hotels, hotel_results, rlog>>
    /\ UNCHANGED lodgingVars
    /\ UNCHANGED <<wi, dests_left, weather_by_key, attractions_by_dest>>
    /\ UNCHANGED notEnrich

NextGeotemp ==
    \/ SkipGeotemp
    \/ EnterGeotemp
    \/ GeotempConnectRaises
    \/ WeatherStep
    \/ WeatherCallRaises
    \/ AttractionStep
    \/ AttractionCallRaises
    \/ ReturnGeotemp

\* ------------------------------- search_accommodations: reading the text
\* trivago/fetch_hotels_mcp.py lines 167-216
StartMarker == <<"o", "u", "t", "p", "u", "t", ":", "[">>
KeyOutput == <<"o", "u", "t", "p", "u", "t">>

\* s.find(sub) as a 1-based position, 0 for -1
Find(s, sub) == IF Contains(s, sub) THEN IndexOf(s, sub) ELSE 0

\* the for loop over range(start, len(s)) of lines 174-183 and 189-198, at
\* index i with the depth counted so far: the outcome of json.loads on
\* s[start : i + 1] at the first "]" that brings the depth to 0, or None
RECURSIVE ScanBrackets(_, _, _, _)
ScanBrackets(s, start, i, depth) ==
    IF i > Len(s) THEN None
    ELSE IF s[i] = "["
         THEN ScanBrackets(s, start, i + 1, depth + 1)
    ELSE IF s[i] = "]"
         THEN IF depth - 1 = 0
              THEN LET r == JsonLoads(SubSeq(s, start, i))
                   IN  IF r.ok THEN r.v ELSE None
              ELSE ScanBrackets(s, start, i + 1, depth - 1)
    ELSE ScanBrackets(s, start, i + 1, depth)

\* a scan that starts after the "[" of the marker
ExtractArrayFromTextAfterBracket(s) ==
    LET idx == Find(s, StartMarker)
    IN  IF idx # 0
        THEN ScanBrackets(s, idx + Len(StartMarker), idx + Len(StartMarker), 0)
        ELSE LET start == Find(s, <<"[">>)
             IN  IF start # 0 THEN ScanBrackets(s, start, start, 0) ELSE None

\* extract_array_from_text(s), lines 167-199
ExtractArrayFromText(s) ==
    LET idx == Find(s, StartMarker)
    IN  IF idx # 0
        THEN ScanBrackets(s, idx + Len(KeyOutput) + 1, idx + Len(KeyOutput) + 1, 0)
        ELSE LET start == Find(s, <<"[">>)
             IN  IF start # 0 THEN ScanBrackets(s, start, start, 0) ELSE None

\* one pass of the loop of lines 201-215 over part: the list the pass
\* breaks with, or None when the loop goes on to the next part
AccommodationsInPart(part) ==
    LET data == JsonLoads(part)
        arr == ExtractArrayFromText(part)
    IN  IF /\ data.ok
           /\ data.v.t = "obj"
           /\ InDict(data.v, KeyOutput)
           /\ DictGet(data.v, KeyOutput).t = "arr"
        THEN DictGet(data.v, KeyOutput)
        ELSE IF data.ok /\ data.v.t = "arr" /\ data.v.a # <<>>
        THEN data.v
        ELSE IF arr.t = "arr" /\ arr.a # <<>>
        THEN arr
        ELSE None

\* ---- the inputs explored ----
MaxBodyLen == 4     \* longest enumerated text after the prefix
BodyChars == {"[", "]", "1", ",", "\""}
Bodies == UNION { [1..n -> BodyChars] : n \in 0..MaxBodyLen }
MapPrefix == <<"m", "a", "p", "[">>
\* map[output:[{"ID":12,"NS":3}]]
MapOutputText ==
    MapPrefix \o StartMarker
      \o <<"{", "\"", "I", "D", "\"", ":", "1", "2", ",",
           "\"", "N", "S", "\"", ":", "3", "}", "]", "]">>
\* {"output":[1]} and {"output":[]}
OutputObjectText(elems) ==
    <<"{", "\"">> \o KeyOutput \o <<"\"", ":", "[">> \o elems \o <<"]", "}">>
\* output:["]["] : an array whose text holds brackets
QuotedBracketsText ==
    SubSeq(StartMarker, 1, 7) \o <<"[", "\"", "]", "[", "\"", "]">>
PartTexts ==
    { p \o m \o b : p \in {<<>>, MapPrefix},
                    m \in {<<>>, SubSeq(StartMarker, 1, 7)},
                    b \in Bodies }
      \cup { MapOutputText, QuotedBracketsText,
             OutputObjectText(<<"1">>), OutputObjectText(<<>>) }
FirstParts == { <<"x">>, OutputObjectText(<<>>), <<"[", "]">> }
SecondParts == { MapOutputText, <<"[", "1", "]">>, <<"1">> }
PartLists ==
    { <<>> } \cup { <<t>> : t \in PartTexts }
      \cup { <<f, t>> : f \in FirstParts, t \in SecondParts }

InitExtract ==
    /\ all_text_parts \in PartLists
    /\ pi = 1
    /\ accommodations = Arr(<<>>)
    /\ xpc = "loop"

\* lines 201-215: one pass of the loop; a pass that finds a list breaks and
\* the list is returned (line 216)
PartStep ==
    /\ xpc = "loop"
    /\ pi <= Len(all_text_parts)
    /\ LET found == AccommodationsInPart(all_text_parts[pi])
       IN  IF found = None
           THEN /\ pi' = pi + 1
                /\ UNCHANGED <<accommodations, xpc>>
           ELSE /\ accommodations' = found
                /\ xpc' = "returned"
                /\ UNCHANGED pi
    /\ UNCHANGED all_text_parts
    /\ UNCHANGED notExtract

\* line 216 after the loop ran out of parts
ReturnAccommodations ==
    /\ xpc = "loop"
    /\ pi > Len(all_text_parts)
    /\ xpc' = "returned"
    /\ UNCHANGED <<all_text_parts, pi, accommodations>>
    /\ UNCHANGED notExtract

NextExtract ==
    \/ PartStep
    \/ ReturnAccommodations

\* ------------------------- get_location_suggestion: reading the answer
\* trivago/fetch_hotels_mcp.py lines 25-126
KeyID == <<"I", "D">>
KeyLowerId == <<"i", "d">>
KeyNS == <<"N", "S">>
KeyLowerNs == <<"n", "s">>

\* a or b
PyOr(a, b) == IF Truthy(a) THEN a ELSE b

\* int(v): the number, or the exception int() raises
IntOf(v) ==
    CASE v.t = "num" -> Return(v.n)
      [] v.t = "bool" -> Return(IF v.b THEN 1 ELSE 0)
      [] v.t = "str" ->
            LET d == Strip(v.s)
                neg == d # <<>> /\ Head(d) = "-"
                ds == IF neg THEN Tail(d) ELSE d
            IN  IF ds # <<>> /\ \A i \in DOMAIN ds : IsDigit(ds[i])
                THEN Return(IF neg THEN 0 - DigitsToNat(ds) ELSE DigitsToNat(ds))
                ELSE Raise("ValueError")
      [] OTHER -> Raise("TypeError")

\* s.get("ID") or s.get("id"), and the same for the namespace
SuggestionId(s) == PyOr(DictGet(s, KeyID), DictGet(s, KeyLowerId))
SuggestionNs(s) == PyOr(DictGet(s, KeyNS), DictGet(s, KeyLowerNs))

\* lines 49-54: the loop over the suggestions
RECURSIVE FirstSuggestion(_)
FirstSuggestion(a) ==
    IF a = <<>> THEN Return(None)
    ELSE LET s == Head(a)
         IN  IF s.t = "obj" /\ SuggestionId(s) # None /\ SuggestionNs(s) # None
             THEN IF IntOf(SuggestionId(s)).k = "raise" THEN IntOf(SuggestionId(s))
                  ELSE IF IntOf(SuggestionNs(s)).k = "raise" THEN IntOf(SuggestionNs(s))
                  ELSE Return(LocationKey(IntOf(SuggestionId(s)).v,
                                          IntOf(SuggestionNs(s)).v))
             ELSE FirstSuggestion(Tail(a))

\* _parse_suggestions_from_data(data), lines 41-55. Iterating a str or a
\* dict yields no dict; iterating None, a number or a bool is a TypeError.
ParseSuggestionsFromData(data) ==
    LET suggestions ==
            IF data.t = "obj" /\ InDict(data, KeyOutput) THEN DictGet(data, KeyOutput)
            ELSE IF data.t = "arr" THEN data
            ELSE Arr(<<>>)
    IN  CASE suggestions.t = "arr" -> FirstSuggestion(suggestions.a)
          [] suggestions.t \in {"str", "obj"} -> Return(None)
          [] OTHER -> Raise("TypeError")

\* _get_block_text(block), trivago/fetch_hotels_mcp.py lines 25-38
TrivagoBlockText(block) ==
    CASE block.t = "none" -> None
      [] block.t = "obj" -> PyOr(DictGet(block, KeyText), None)
      [] block.t = "textobj" -> IF block.text.t = "str" THEN block.text ELSE None
      [] block.t = "dumpobj" -> DictGet(block.dump, KeyText)
      [] OTHER -> None

\* lines 75-86: the texts collected from the blocks; the second look at
\* model_dump() finds the text the first look found
RECURSIVE AllTextParts(_)
AllTextParts(blocks) ==
    IF blocks = <<>> THEN <<>>
    ELSE (IF Truthy(TrivagoBlockText(Head(blocks)))
          THEN <<TrivagoBlockText(Head(blocks))>> ELSE <<>>)
         \o AllTextParts(Tail(blocks))

\* "\n".join(parts) for str parts
RECURSIVE JoinNewline(_)
JoinNewline(parts) ==
    IF parts = <<>> THEN <<>>
    ELSE IF Len(parts) = 1 THEN parts[1].s
    ELSE parts[1].s \o <<"\n">> \o JoinNewline(Tail(parts))

\* re.IGNORECASE for the letters of the two keys
Fold(c) ==
    CASE c = "i" -> "I" [] c = "d" -> "D" [] c = "n" -> "N" [] c = "s" -> "S"
      [] OTHER -> c

\* ID["']?\s*:\s*(\d+) matches with its key at i: the index of the first
\* digit of the group, 0 when there is no match
GroupStart(s, i, key) ==
    IF ~(Fold(At(s, i)) = key[1] /\ Fold(At(s, i + 1)) = key[2]) THEN 0
    ELSE LET q == IF At(s, i + 2) \in {"\"", "'"} THEN i + 3 ELSE i + 2
             c == SkipWs(s, q)
         IN  IF At(s, c) # ":" THEN 0
             ELSE IF IsDigit(At(s, SkipWs(s, c + 1))) THEN SkipWs(s, c + 1) ELSE 0

\* re.findall(r'["\']?ID["\']?\s*:\s*(\d+)', s, re.IGNORECASE): the first
\* element as a str, None for an empty list
FindFirst(s, key) ==
    LET hits == {i \in DOMAIN s : GroupStart(s, i, key) # 0}
    IN  IF hits = {} THEN None
        ELSE LET i == CHOOSE i \in hits : \A j \in hits : i <= j
                 g == GroupStart(s, i, key)
             IN  Str(SubSeq(s, g, DigitRunEnd(s, g)))

\* lines 97-101, 110-113, 119-123: the regex fallback on text s
RegexPair(s) ==
    IF /\ Contains(s, KeyID) /\ Contains(s, KeyNS)
       /\ FindFirst(s, KeyID) # None /\ FindFirst(s, KeyNS) # None
    THEN LocationKey(DigitsToNat(FindFirst(s, KeyID).s),
                     DigitsToNat(FindFirst(s, KeyNS).s))
    ELSE None

\* lines 103-113: the loop over the parts; Return(None) when it runs out
RECURSIVE PartsFallback(_)
PartsFallback(parts) ==
    IF parts = <<>> THEN Return(None)
    ELSE LET d == JsonLoads(Head(parts).s)
             out == IF d.ok THEN ParseSuggestionsFromData(d.v)
                    ELSE Return(RegexPair(Head(parts).s))
         IN  IF out.k = "raise" \/ out.v # None THEN out
             ELSE PartsFallback(Tail(parts))

\* result.model_dump(): the blocks and the structured field as plain data
DumpBlock(block) ==
    CASE block.t = "textobj" -> Obj(<< <<KeyText, block.text>> >>)
      [] block.t = "dumpobj" -> block.dump
      [] OTHER -> block
KeyContent == <<"c", "o", "n", "t", "e", "n", "t">>
KeyStructuredContent ==
    <<"s", "t", "r", "u", "c", "t", "u", "r", "e", "d", "C", "o", "n", "t", "e", "n", "t">>
ModelDump(result) ==
    Obj(<< <<KeyContent,
             IF result.content.t = "arr"
             THEN Arr([i \in DOMAIN result.content.a |-> DumpBlock(result.content.a[i])])
             ELSE result.content>>,
           <<KeyStructuredContent, result.structuredContent>> >>)

\* lines 115-126: the scan of the whole result
LastResort(result) == Return(RegexPair(JsonDumps(ModelDump(result))))

\* lines 64-72: the structured field
StructuredSuggestion(sc) ==
    IF Truthy(sc) /\ sc.t = "obj"
    THEN LET out == ParseSuggestionsFromData(sc)
         IN  IF out.k = "raise" \/ out.v # None THEN out
             ELSE IF InDict(sc, KeyOutput)
                  THEN ParseSuggestionsFromData(DictGet(sc, KeyOutput))
                  ELSE Return(None)
    ELSE Return(None)

\* lines 87-113: the texts of the blocks
TextSuggestion(parts) ==
    IF \E i \in DOMAIN parts : parts[i].t # "str" THEN Raise("TypeError")
    ELSE LET full_text == JoinNewline(parts)
             d == JsonLoads(full_text)
             out == IF d.ok THEN ParseSuggestionsFromData(d.v) ELSE Return(None)
         IN  IF out.k = "raise" \/ out.v # None THEN out
             ELSE IF RegexPair(full_text) # None THEN Return(RegexPair(full_text))
             ELSE PartsFallback(parts)

\* get_location_suggestion after the tool call, lines 63-126, for the
\* result the call returned
LocationSuggestionOf(result) ==
    LET st == StructuredSuggestion(result.structuredContent)
    IN  IF st.k = "raise" \/ st.v # None THEN st
        ELSE IF ~Truthy(result.content) THEN Return(None)
        ELSE LET parts == AllTextParts(result.content.a)
                 tx == IF parts = <<>> THEN Return(None) ELSE TextSuggestion(parts)
             IN  IF tx.k = "raise" \/ tx.v # None THEN tx
                 ELSE LastResort(result)

\* ---- the answers explored ----
MaxRecords == 2     \* most suggestion records in one answer
IdKeys == {KeyID, KeyLowerId, <<"I", "d">>}
NsKeys == {KeyNS, <<"N", "s">>}
IdValues == {Num(12), Num(0)}
NsValues == {Num(3), Num(4)}
SuggestionRecords ==
    { Obj(<< <<ik, iv>>, <<nk, nv>> >>) :
         ik \in IdKeys, iv \in IdValues, nk \in NsKeys, nv \in NsValues }
      \cup { Obj(<< <<ik, iv>> >>) : ik \in IdKeys, iv \in IdValues }
      \cup { Obj(<< <<nk, nv>> >>) : nk \in NsKeys, nv \in NsValues }
      \cup { Obj(<< <<KeyID, Str(<<"7">>)>>, <<KeyNS, Str(<<"x">>)>> >>), Str(<<"x">>) }
\* the data with at most n records
SuggestionData(n) ==
    { Arr(a) : a \in SeqUpTo(SuggestionRecords, n) }
      \cup { Obj(<< <<KeyOutput, Arr(a)>> >>) : a \in SeqUpTo(SuggestionRecords, n) }
      \cup { None, Num(5), Obj(<< <<KeyOutput, None>> >>), Obj(<<>>),
             Obj(<< <<KeyOutput, Str(<<"x">>)>> >>) }

\* the records of the answers that arrive as a result
FewRecords ==
    { Obj(<< <<KeyID, Num(12)>>, <<KeyNS, Num(3)>> >>),
      Obj(<< <<KeyLowerId, Num(5)>>, <<KeyLowerNs, Num(4)>> >>),
      Obj(<< <<KeyID, Num(12)>> >>),
      Obj(<< <<KeyID, Num(5)>> >>),
      Obj(<< <<KeyNS, Num(4)>> >>),
      Obj(<< <<KeyID, Num(0)>>, <<KeyNS, Num(3)>> >>) }
FewData ==
    { Arr(a) : a \in SeqUpTo(FewRecords, MaxRecords) }
      \cup { Obj(<< <<KeyOutput, Arr(a)>> >>) : a \in SeqUpTo(FewRecords, MaxRecords) }
\* map[output:[map[ID:12 NS:3]]] , ID:12 ID:5 NS:4 , x
GoTexts ==
    { MapPrefix \o StartMarker
        \o <<"m", "a", "p", "[", "I", "D", ":", "1", "2", " ", "N", "S", ":", "3", "]", "]", "]">>,
      <<"I", "D", ":", "1", "2", " ", "I", "D", ":", "5", " ", "N", "S", ":", "4">>,
      <<"x">> }
SuggestionTexts == { JsonDumps(d) : d \in FewData } \cup GoTexts
SuggestionStructured ==
    { None, Obj(<<>>),
      Obj(<< <<KeyOutput, Arr(<<Obj(<< <<KeyID, Num(12)>>, <<KeyNS, Num(3)>> >>)>>)>> >>),
      Obj(<< <<KeyOutput, Arr(<<Obj(<< <<KeyID, Num(12)>> >>),
                                Obj(<< <<KeyNS, Num(4)>> >>)>>)>> >>) }
SuggestionContents ==
    { None, Arr(<<>>) }
      \cup { Arr(<<b>>) : b \in UNION { BlocksOf(Str(s)) : s \in SuggestionTexts } }
      \cup { Arr(<<Obj(<< <<KeyText, Str(s1)>> >>), Obj(<< <<KeyText, Str(s2)>> >>)>>) :
               s1 \in GoTexts, s2 \in GoTexts }
      \cup { Arr(<<Obj(<< <<KeyText, Num(5)>> >>)>>), Arr(<<None>>) }
SuggestionResults ==
    { Result(c, sc) : c \in SuggestionContents, sc \in SuggestionStructured }

\* either _parse_suggestions_from_data is called on data, or
\* get_location_suggestion has received the result of its tool call
InitSuggest ==
    /\ \/ /\ gpc = "data"
          /\ sug_data \in SuggestionData(MaxRecords)
          /\ sug_result = None
       \/ /\ gpc = "result"
          /\ sug_data = None
          /\ sug_result \in SuggestionResults
    /\ sug_pair = [k |-> "pending"]
    /\ sug_out = [k |-> "pending"]

CallParseSuggestionsFromData ==
    /\ gpc = "data"
    /\ sug_pair' = ParseSuggestionsFromData(sug_data)
    /\ gpc' = "done"
    /\ UNCHANGED <<sug_data, sug_result, sug_out>>
    /\ UNCHANGED notSuggest

ReadLocationSuggestion ==
    /\ gpc = "result"
    /\ sug_out' = LocationSuggestionOf(sug_result)
    /\ gpc' = "done"
    /\ UNCHANGED <<sug_data, sug_result, sug_pair>>
    /\ UNCHANGED notSuggest

NextSuggest ==
    \/ CallParseSuggestionsFromData
    \/ ReadLocationSuggestion

\* ------------------------------------------------------------------ run()
\* lines 631-679: the search, then the lodging phase, then the weather
\* and attraction phase.
\* The whole runs explored, each by what the provider has on sale, the
\* number of candidates the caller asks for and the horizons searched:
\* one kind of pair, two candidates, any horizon; four kinds, to either
\* destination, at either end of the time window and of the return range
\* and at either price, one candidate and a horizon of at most one day;
\* nothing on sale, the default of line 637, any horizon.
RunScenarios ==
    { [on_sale |-> {[c |-> 2, h |-> "to", r |-> "to", pp |-> <<10, 20>>]},
       num |-> 2, days |-> 0..MaxDays],
      [on_sale |-> {[c |-> 1, h |-> "to", r |-> "from", pp |-> <<10, 20>>],
                    [c |-> 2, h |-> "from", r |-> "from", pp |-> <<10, 20>>],
                    [c |-> 2, h |-> "to", r |-> "from", pp |-> <<10, 20>>],
                    [c |-> 1, h |-> "from", r |-> "to", pp |-> <<20, 5>>]},
       num |-> 1, days |-> 0..1],
      [on_sale |-> {}, num |-> 10, days |-> 0..MaxDays] }

\* lines 644-646: run() is called; nothing is searched or fetched yet
InitRun ==
    /\ InitSearch
    /\ \E sc \in RunScenarios :
          /\ on_sale = sc.on_sale
          /\ num_cheapest_flights = sc.num
          /\ n_days \in sc.days
    /\ fetch_hotels \in BOOLEAN
    /\ TRIVAGO_AVAILABLE \in BOOLEAN
    /\ GEOTEMP_AVAILABLE \in BOOLEAN
    /\ cheapest_flights = <<>>
    /\ ti = 0
    /\ qi = 0
    /\ suggestion = None
    /\ results = <<>>
    /\ hotel_results = <<>>
    /\ GeoIdle
    /\ epc = "search"
    /\ rlog = <<>>
    /\ failed = {}

\* lines 647-649 with the candidates taken although the search raised
TakeCheapestAfterRaise ==
    /\ spc \in {"returned", "raised"}
    /\ epc = "search"
    /\ cheapest_flights' = Take(outbound, num_cheapest_flights)
    /\ epc' = "start"
    /\ UNCHANGED <<fetch_hotels, hotel_results, rlog>>
    /\ UNCHANGED lodgingVars
    /\ UNCHANGED geoVars
    /\ UNCHANGED notEnrich

\* lines 647-649: the search returned; the cheapest candidates are taken
TakeCheapest ==
    /\ spc = "returned"
    /\ epc = "search"
    /\ cheapest_flights' = Take(outbound, num_cheapest_flights)
    /\ epc' = "start"
    /\ UNCHANGED <<fetch_hotels, hotel_results, rlog>>
    /\ UNCHANGED lodgingVars
    /\ UNCHANGED geoVars
    /\ UNCHANGED notEnrich

\* line 647: the search raised; nothing in run() catches it
SearchAborts ==
    /\ spc = "raised"
    /\ epc = "search"
    /\ epc' = "aborted"
    /\ UNCHANGED <<cheapest_flights, fetch_hotels, hotel_results, rlog>>
    /\ UNCHANGED lodgingVars
    /\ UNCHANGED geoVars
    /\ UNCHANGED notEnrich

NextRun ==
    \/ NextSearch
    \/ TakeCheapest
    \/ SearchAborts
    \/ NextHotels
    \/ NextGeotemp

\* ---------------------------------------------------------- specifications
IdleSearch ==
    /\ today = 0 /\ midnights = 0 /\ n_days = 0 /\ oi = 1 /\ day_offset = 0
    /\ outbound = <<>> /\ spc = "idle" /\ provided = <<>> /\ calls = <<>>
    /\ on_sale = {}

IdlePrice ==
    /\ price_h = [f \in {"name"} |-> Str(<<"H">>)]
    /\ price_out = [k |-> "pending"]
    /\ ppc = "idle"

IdleNorm ==
    /\ norm_in = None
    /\ norm_out = [k |-> "pending"]
    /\ norm_again = [k |-> "pending"]
    /\ npc = "idle"

IdleExtract ==
    /\ all_text_parts = <<>>
    /\ pi = 0
    /\ accommodations = Arr(<<>>)
    /\ xpc = "idle"

IdleSuggest ==
    /\ sug_data = None
    /\ sug_pair = [k |-> "pending"]
    /\ sug_result = None
    /\ sug_out = [k |-> "pending"]
    /\ gpc = "idle"

IdleEnrich ==
    /\ cheapest_flights = <<>>
    /\ fetch_hotels = FALSE
    /\ num_cheapest_flights = 10
    /\ TRIVAGO_AVAILABLE = TRUE
    /\ GEOTEMP_AVAILABLE = TRUE
    /\ ti = 0
    /\ qi = 0
    /\ suggestion = None
    /\ results = <<>>
    /\ hotel_results = <<>>
    /\ wi = 0
    /\ dests_left = {}
    /\ weather_by_key = <<>>
    /\ attractions_by_dest = <<>>
    /\ travel_data = None
    /\ epc = "idle"
    /\ rlog = <<>>
    /\ failed = {}

vars == <<searchVars, priceVars, normVars, extractVars, suggestVars, enrichVars,
          givenVars>>

InitSpecSearch ==
    IdlePrice /\ IdleNorm /\ IdleEnrich /\ IdleExtract /\ IdleSuggest
    /\ InitSearch
    /\ on_sale = Kinds
SpecSearch == InitSpecSearch /\ [][NextSearch]_vars

InitSpecPrice ==
    IdleSearch /\ IdleNorm /\ IdleEnrich /\ IdleExtract /\ IdleSuggest
    /\ InitPrice
SpecPrice == InitSpecPrice /\ [][NextPrice]_vars

InitSpecNorm ==
    IdleSearch /\ IdlePrice /\ IdleEnrich /\ IdleExtract /\ IdleSuggest
    /\ InitNorm
SpecNorm == InitSpecNorm /\ [][NextNorm]_vars

InitSpecHotels ==
    IdleSearch /\ IdlePrice /\ IdleNorm /\ IdleExtract /\ IdleSuggest
    /\ InitHotels
SpecHotels == InitSpecHotels /\ [][NextHotels]_vars

InitSpecExtract ==
    IdleSearch /\ IdlePrice /\ IdleNorm /\ IdleEnrich /\ IdleSuggest
    /\ InitExtract
SpecExtract == InitSpecExtract /\ [][NextExtract]_vars

InitSpecSuggest ==
    IdleSearch /\ IdlePrice /\ IdleNorm /\ IdleExtract /\ IdleEnrich
    /\ InitSuggest
SpecSuggest == InitSpecSuggest /\ [][NextSuggest]_vars

InitSpecRun ==
    IdlePrice /\ IdleNorm /\ IdleExtract /\ IdleSuggest
    /\ InitRun
SpecRun == InitSpecRun /\ [][NextRun]_vars

InitSpecGeotemp ==
    IdleSearch /\ IdlePrice /\ IdleNorm /\ IdleExtract /\ IdleSuggest
    /\ InitGeotemp
SpecGeotemp == InitSpecGeotemp /\ [][NextGeotemp]_vars

\* ------------------------------------------------------------ claims C1-C3
Nights(c) == c[2].departureTime.date - c[1].departureTime.date
Total(c) == c[1].price + c[2].price

\* C1: every candidate returned by collect_outbound_flights leaves on a
\* Thursday at hour >= 17 or on a Friday at hour >= 23.
C1_OutboundAdmitted ==
    spc = "returned" =>
        \A i \in DOMAIN outbound :
            LET dt == outbound[i][1].departureTime
            IN  \/ Weekday(dt.date) = THURSDAY /\ dt.hour >= 17
                \/ Weekday(dt.date) = FRIDAY /\ dt.hour >= 23

\* C2: every candidate's inbound leg leaves between RETURN_DAYS_MIN and
\* RETURN_DAYS_MAX days after its outbound leg.
C2_NightRange ==
    \A i \in DOMAIN outbound :
        /\ RETURN_DAYS_MIN <= Nights(outbound[i])
        /\ Nights(outbound[i]) <= RETURN_DAYS_MAX

C2_Witness ==
    /\ spc = "returned"
    /\ \E i, j \in DOMAIN outbound :
          /\ Nights(outbound[i]) = RETURN_DAYS_MIN
          /\ Nights(outbound[j]) = RETURN_DAYS_MAX

\* the candidate collect_outbound_flights makes of a provider pair p
MatchesProvided(c, p) ==
    /\ c[1].origin = p.outbound.origin
    /\ c[1].destination = p.outbound.destination
    /\ c[1].destinationFull = p.outbound.destinationFull
    /\ c[1].departureTime = p.outbound.departureTime
    /\ c[1].price = p.outbound.price
    /\ c[2] = p.inbound
    /\ c[3] = p.outbound.price

\* C3: the returned list is a permutation of all pairs the provider returned
\* (none dropped, none merged), ascending by total price, then outbound
\* date, then destination code.
C3_RankedPermutation ==
    spc = "returned" =>
        /\ Len(outbound) = Len(provided)
        /\ \A k \in DOMAIN provided :
              Cardinality({i \in DOMAIN outbound : MatchesProvided(outbound[i], provided[k])})
                = Cardinality({j \in DOMAIN provided : provided[j] = provided[k]})
        /\ \A i, j \in DOMAIN outbound :
              i < j =>
                LET a == outbound[i]
                    b == outbound[j]
                IN  \/ Total(a) < Total(b)
                    \/ /\ Total(a) = Total(b)
                       /\ a[1].departureTime.date < b[1].departureTime.date
                    \/ /\ Total(a) = Total(b)
                       /\ a[1].departureTime.date = b[1].departureTime.date
                       /\ CodeRank(a[1].destination) <= CodeRank(b[1].destination)

\* two candidates to the same destination on different days both survive,
\* and the one with the dearer outbound leg but cheaper total comes first
C3_Witness ==
    /\ spc = "returned"
    /\ Len(outbound) = 2
    /\ outbound[1][1].destination = outbound[2][1].destination
    /\ outbound[1][1].departureTime.date # outbound[2][1].departureTime.date
    /\ Total(outbound[1]) < Total(outbound[2])
    /\ outbound[1][3] > outbound[2][3]

\* ---------------------------------------------------------------- claim C10
\* the text of the offer's nightly-price field ("" when absent or None)
NightlyPriceText(h) ==
    LET a == Get(h, "Price Per Night")
        b == Get(h, "price_per_night")
    IN  IF a.t = "str" /\ a.s # <<>> THEN a.s
        ELSE IF b.t = "str" THEN b.s ELSE <<>>

\* both price fields are absent, None or text
TextOffer(h) ==
    /\ Get(h, "Price Per Night").t \in {"none", "str"}
    /\ Get(h, "price_per_night").t \in {"none", "str"}

IsSeparator(c) == c = "." \/ c = ","

\* s[i..j] is the first maximal run of digits and separators of s
FirstRun(s, i, j) ==
    /\ i <= j
    /\ \A x \in i..j : IsDigit(s[x]) \/ IsSeparator(s[x])
    /\ \A x \in 1..(i - 1) : ~(IsDigit(s[x]) \/ IsSeparator(s[x]))
    /\ (j = Len(s) \/ ~(IsDigit(s[j + 1]) \/ IsSeparator(s[j + 1])))

\* the text has a first run that is a number: at least one digit and at most
\* one separator
Usable(s) ==
    \E i, j \in DOMAIN s :
        /\ FirstRun(s, i, j)
        /\ \E x \in i..j : IsDigit(s[x])
        /\ Cardinality({x \in i..j : IsSeparator(s[x])}) <= 1

\* C10: _parse_price_night never raises on an offer whose price field is
\* absent, None or text; it returns +infinity exactly when the text is empty,
\* has no digit run, or its first digit/separator run is not a number; and
\* "€77" gives 77.0.
C10_PriceTotal ==
    (ppc = "done" /\ TextOffer(price_h)) =>
        /\ price_out.k \in {"inf", "num"}
        /\ (price_out = Infinity) <=> ~Usable(NightlyPriceText(price_h))
        /\ NightlyPriceText(price_h) = <<"€", "7", "7">>
             => price_out = [k |-> "num", num |-> 77, exp |-> 0]

\* a text with digits whose first run is not a number, parsed to +infinity
C10_Witness ==
    /\ ppc = "done"
    /\ TextOffer(price_h)
    /\ \E x \in DOMAIN NightlyPriceText(price_h) : IsDigit(NightlyPriceText(price_h)[x])
    /\ price_out = Infinity

\* ------------------------------------------------------------ claims C7-C9
IsContainer(v) == v.t \in {"obj", "arr"}

\* C7: _parse_tool_result never raises and returns an object, an array, a
\* {raw: text} object or null.
C7_NeverRaises ==
    npc \in {"done", "again", "wrapped"} =>
        /\ norm_out.k = "return"
        /\ IsContainer(norm_out.v) \/ norm_out.v = None

\* C8 as stated: a returned object or array, normalized again as it stands,
\* comes back unchanged.
C8_IdempotentOnValue ==
    (npc = "again" /\ IsContainer(norm_out.v)) => norm_again = Return(norm_out.v)

\* C8 amended: a returned object or array comes back unchanged when it is
\* normalized again as the structuredContent of a result without content;
\* normalized again as it stands (a dict or list has neither attribute) it
\* gives None.
C8_IdempotentAsStructured ==
    /\ (npc = "wrapped" /\ IsContainer(norm_out.v)) => norm_again = Return(norm_out.v)
    /\ (npc = "again" /\ IsContainer(norm_out.v)) => norm_again = Return(None)

\* an empty list parsed from a content block and carried back unchanged
C8_Witness ==
    /\ npc = "wrapped"
    /\ norm_in.t = "result"
    /\ Truthy(norm_in.content)
    /\ norm_out = Return(Arr(<<>>))
    /\ norm_again = norm_out

\* every result holding one text block with the serialization of an object
\* or array, in each access pattern of the block, with the value serialized
RoundTripCases ==
    UNION { { <<Result(Arr(<<b>>), None), v>> : b \in BlocksOf(Str(JsonDumps(v))) } :
            v \in JsonContainers }

\* C9: a result whose content is one text block holding the serialization
\* of an object or array v, with no structured field, normalizes to v.
C9_RoundTrip ==
    npc \in {"done", "again", "wrapped"} =>
        \A c \in RoundTripCases : norm_in = c[1] => norm_out = Return(c[2])

\* a nested value with two members made the round trip through a dict block
C9_Witness ==
    /\ npc = "done"
    /\ norm_in.t = "result"
    /\ norm_in.structuredContent = None
    /\ norm_in.content = Arr(<< Obj(<< <<KeyText,
            Str(JsonDumps(Arr(<<Num(10), Obj(<< <<<<"I", "D">>, Str(<<"a">>)>>, <<<<"a">>, None>> >>)>>)))>> >>) >>)
    /\ norm_out = Return(Arr(<<Num(10), Obj(<< <<<<"I", "D">>, Str(<<"a">>)>>, <<<<"a">>, None>> >>)>>))

\* ------------------------------------------------------------ claims C4-C6
IsSuggestionCall(e) == e.tool = "trivago-search-suggestions"

\* C4: a failure of the location lookup or of the accommodation search for
\* one candidate degrades only that candidate's lodging list to empty: the
\* run goes on, and the list run() receives holds one record per candidate,
\* the failed candidate's with no offers.
C4_LodgingFailureIsLocal ==
    /\ (\E f \in failed : f[2] \in {"lookup", "search"}) => epc # "aborted"
    /\ (epc = "geotemp" /\ LodgingWanted) =>
          /\ Len(hotel_results) = Len(cheapest_flights)
          /\ \A f \in failed : hotel_results[f[1]].hotels = <<>>

\* C5: the suggestion lookup is issued at most once per distinct
\* destinationCity: no two candidates with the same destinationCity both
\* have a lookup in the history of remote calls.
C5_LookupOncePerCity ==
    \A i \in DOMAIN rlog : \A j \in DOMAIN rlog :
        (/\ IsSuggestionCall(rlog[i])
         /\ IsSuggestionCall(rlog[j])
         /\ rlog[i].cand # rlog[j].cand)
        => Tasks(cheapest_flights)[rlog[i].cand].dest_city
             # Tasks(cheapest_flights)[rlog[j].cand].dest_city

\* C6: within one run of _fetch_geotemp_for_trips no two get_weather calls
\* carry the same (destination, arrival, departure) key and no two
\* get_attractions calls the same destination, and when the run returns its
\* result every candidate's key and destination has an entry in it.
C6_OneCallPerKey ==
    /\ \A i \in DOMAIN rlog : \A j \in DOMAIN rlog :
          (/\ i < j
           /\ rlog[i].tool \in {"get_weather", "get_attractions"}
           /\ rlog[i].tool = rlog[j].tool)
          => rlog[i].key # rlog[j].key
    /\ (epc = "done" /\ travel_data # None) =>
          \A i \in DOMAIN WeatherKeys(cheapest_flights, hotel_results) :
             LET key == WeatherKeys(cheapest_flights, hotel_results)[i]
             IN  /\ HasKey(travel_data.weather, key)
                 /\ HasKey(travel_data.attractions, key[1])

\* two candidates with the same key were both served, by one get_weather call
C6_Witness ==
    /\ epc = "done"
    /\ travel_data # None
    /\ Len(cheapest_flights) = 2
    /\ LET keys == WeatherKeys(cheapest_flights, hotel_results)
       IN  /\ keys[1] = keys[2]
           /\ Cardinality({i \in DOMAIN rlog : rlog[i].tool = "get_weather"}) = 1
           /\ HasKey(travel_data.weather, keys[2])

\* ---------------------------------------------------------------- claim C11
\* C11: for the nightly-price text "1.234,50" (a thousands separator and a
\* decimal comma) _parse_price_night returns 1234.50.
C11_ThousandsSeparator ==
    (/\ ppc = "done"
     /\ TextOffer(price_h)
     /\ NightlyPriceText(price_h) = <<"1", ".", "2", "3", "4", ",", "5", "0">>)
    => price_out = Decimal(123450, 2)

\* ---------------------------------------------------------------- claim C12
\* record r carries the legs and the price of candidate c
CarriesCandidate(r, c) ==
    /\ r.flight = c[1]
    /\ r.return_flight = c[2]
    /\ r.price = c[3]

\* C12: the list fetch_hotels_for_cheapest_flights builds holds, in input
\* order, one record per candidate processed, each with that candidate's
\* outbound leg, inbound leg and price; the list it returns has the length
\* of its input.
C12_OrderPreserved ==
    /\ Len(results) <= Len(cheapest_flights)
    /\ \A i \in DOMAIN results : CarriesCandidate(results[i], cheapest_flights[i])
    /\ (epc = "geotemp" /\ LodgingWanted) =>
          /\ Len(hotel_results) = Len(cheapest_flights)
          /\ \A i \in DOMAIN hotel_results :
                CarriesCandidate(hotel_results[i], cheapest_flights[i])

\* two different candidates were returned with different lodging lists
C12_Witness ==
    /\ epc = "geotemp"
    /\ fetch_hotels
    /\ Len(hotel_results) = 2
    /\ cheapest_flights[1] # cheapest_flights[2]
    /\ hotel_results[1].hotels = <<>>
    /\ hotel_results[2].hotels # <<>>

\* ---------------------------------------------------------------- claim C13
\* C13: once an exception was raised while contacting the weather and
\* attraction provider, run() has gone on to its output stage with no travel
\* data, and no step of the weather phase changes the flight candidates or
\* the lodging results that stage receives.
C13_GeotempFailureContained ==
    /\ [](failed # {} => (epc = "done" /\ travel_data = None))
    /\ [][/\ cheapest_flights' = cheapest_flights
          /\ hotel_results' = hotel_results]_vars

\* a call raised after an earlier one had succeeded, with lodging records
\* present
C13_Witness ==
    /\ failed # {}
    /\ epc = "done"
    /\ travel_data = None
    /\ weather_by_key # <<>>
    /\ hotel_results # <<>>
    /\ Len(hotel_results) = Len(cheapest_flights)

\* ---------------------------------------------------------------- claim C14
IsAccommodationCall(e) == e.tool = "trivago-accommodation-search"

\* the positions in the history of the lookups made for candidate i
LookupsFor(i) == {x \in DOMAIN rlog : IsSuggestionCall(rlog[x]) /\ rlog[x].cand = i}

\* every query of candidate i was looked up and none found a location
Unresolved(i) ==
    /\ Cardinality(LookupsFor(i))
         = Len(TrivagoQueryForDestination(Tasks(cheapest_flights)[i].dest_city))
    /\ \A x \in LookupsFor(i) : rlog[x].result = None

\* C14: a candidate none of whose queries resolved to a location has its
\* record in the list, with no offers; no accommodation search was issued
\* for it and no step of it raised.
C14_UnresolvedIsEmpty ==
    \A i \in DOMAIN cheapest_flights :
        (epc \in {"hotels", "geotemp", "aborted"} /\ Unresolved(i)) =>
            /\ i \in DOMAIN results
            /\ results[i].hotels = <<>>
            /\ CarriesCandidate(results[i], cheapest_flights[i])
            /\ \A x \in DOMAIN rlog : ~(IsAccommodationCall(rlog[x]) /\ rlog[x].cand = i)
            /\ \A f \in failed : f[1] # i
            /\ epc = "geotemp" => i \in DOMAIN hotel_results

\* the first candidate's two queries both failed, the second candidate was
\* resolved and got offers, and the list was returned
C14_Witness ==
    /\ epc = "geotemp"
    /\ Len(hotel_results) = 2
    /\ Unresolved(1)
    /\ Cardinality(LookupsFor(1)) = 2
    /\ hotel_results[1].hotels = <<>>
    /\ hotel_results[2].hotels # <<>>

\* ---------------------------------------------------------------- claim C15
\* q is city without its trailing " (code)"
IsCodeStripped(city, q) ==
    IF city # <<>> /\ city[Len(city)] = ")"
       /\ \E k \in DOMAIN city : MatchAt(city, k, <<" ", "(">>)
    THEN \E k \in DOMAIN city :
            /\ MatchAt(city, k, <<" ", "(">>)
            /\ \A j \in (k + 1)..Len(city) : ~MatchAt(city, j, <<" ", "(">>)
            /\ q = SubSeq(city, 1, k - 1)
    ELSE q = city

\* q2 is what stands in q1 before its first " - "
IsBeforeDash(q1, q2) ==
    \E k \in DOMAIN q1 :
        /\ MatchAt(q1, k, <<" ", "-", " ">>)
        /\ \A j \in 1..(k - 1) : ~MatchAt(q1, j, <<" ", "-", " ">>)
        /\ q2 = SubSeq(q1, 1, k - 1)

\* C15: for every candidate at most two lookups are issued; the first
\* carries the destination without its trailing " (code)"; a second one is
\* issued only after the first found nothing and carries what stands before
\* the first " - " of the first query; and the accommodation search uses the
\* (id, ns) pair of the one lookup that found a location.
C15_QueryOrder ==
    \A i \in DOMAIN cheapest_flights :
        LET city == Tasks(cheapest_flights)[i].dest_city
            L == LookupsFor(i)
        IN  /\ Cardinality(L) <= 2
            /\ \A x \in L :
                  (\A y \in L : x <= y) => IsCodeStripped(city, rlog[x].args.query)
            /\ \A x \in L : \A y \in L :
                  x < y => /\ rlog[x].result = None
                           /\ IsBeforeDash(rlog[x].args.query, rlog[y].args.query)
            /\ \A z \in DOMAIN rlog :
                  (IsAccommodationCall(rlog[z]) /\ rlog[z].cand = i) =>
                     \E x \in L :
                        /\ x < z
                        /\ rlog[x].result.t = "tuple"
                        /\ rlog[x].result.id = rlog[z].args.id
                        /\ rlog[x].result.ns = rlog[z].args.ns
                        /\ \A y \in L \ {x} : rlog[y].result = None

\* a candidate whose first query found nothing and whose second query found
\* the location the search was made with
C15_Witness ==
    \E i \in DOMAIN cheapest_flights :
        /\ Cardinality(LookupsFor(i)) = 2
        /\ \E z \in DOMAIN rlog : IsAccommodationCall(rlog[z]) /\ rlog[z].cand = i
        /\ \E x \in LookupsFor(i) :
              /\ rlog[x].result = None
              /\ rlog[x].args.query = <<"A", " ", "-", " ", "B">>
        /\ \E y \in LookupsFor(i) :
              /\ rlog[y].result # None
              /\ rlog[y].args.query = <<"A">>

\* ---------------------------------------------------------------- claim C16
\* a <= b for two parsed prices
FloatLeq(a, b) == ~FloatLess(b, a)

\* top is the first n of the stable ascending sort of offers by parsed
\* price: f names the place in offers of each offer kept
IsCheapestStable(top, offers, n) ==
    /\ Len(top) = (IF Len(offers) < n THEN Len(offers) ELSE n)
    /\ \E f \in [DOMAIN top -> DOMAIN offers] :
          /\ \A k \in DOMAIN top : top[k] = offers[f[k]]
          /\ \A k \in DOMAIN top : \A l \in DOMAIN top :
                k < l =>
                   /\ f[k] # f[l]
                   /\ FloatLeq(ParsePriceNight(top[k]), ParsePriceNight(top[l]))
                   /\ ParsePriceNight(top[k]) = ParsePriceNight(top[l]) => f[k] < f[l]
          /\ \A j \in DOMAIN offers :
                (\A k \in DOMAIN top : f[k] # j) =>
                   \A k \in DOMAIN top :
                      /\ FloatLeq(ParsePriceNight(top[k]), ParsePriceNight(offers[j]))
                      /\ ParsePriceNight(top[k]) = ParsePriceNight(offers[j]) => f[k] < j

\* C16: for a resolved candidate whose offers carry a text or no nightly
\* price, the lodging list holds at most N offers, the first N of the stable
\* ascending sort of the provider's offers by parsed nightly price.
C16_CheapestStable ==
    \A z \in DOMAIN rlog :
        (/\ IsAccommodationCall(rlog[z])
         /\ rlog[z].result.k = "return"
         /\ \A j \in DOMAIN rlog[z].result.v : TextOffer(rlog[z].result.v[j]))
        => /\ rlog[z].cand \in DOMAIN results
           /\ Len(results[rlog[z].cand].hotels) <= hotels_per_flight
           /\ IsCheapestStable(results[rlog[z].cand].hotels, rlog[z].result.v,
                               hotels_per_flight)

\* four offers, two of them without a usable price, were cut to three, and
\* on another candidate two offers of equal price were kept in their order
C16_Witness ==
    /\ \E z \in DOMAIN rlog :
          /\ IsAccommodationCall(rlog[z])
          /\ rlog[z].result.k = "return"
          /\ Len(rlog[z].result.v) = 4
          /\ rlog[z].cand \in DOMAIN results
          /\ Len(results[rlog[z].cand].hotels) = 3
          /\ ParsePriceNight(results[rlog[z].cand].hotels[3]) = Infinity
    /\ \E i \in DOMAIN results :
          /\ Len(results[i].hotels) = 3
          /\ ParsePriceNight(results[i].hotels[1]) = ParsePriceNight(results[i].hotels[2])
          /\ results[i].hotels[1] # results[i].hotels[2]

\* ---------------------------------------------------------------- claim C17
\* the number of "[" less the number of "]" in s[a..b]
Depth(s, a, b) ==
    Cardinality({j \in a..b : s[j] = "["}) - Cardinality({j \in a..b : s[j] = "]"})

\* s[a..e] is a bracket-balanced array: it opens at a, closes at e and is
\* open everywhere between, and it is the text of a JSON array
BalancedArray(s, a, e) ==
    /\ s[a] = "["
    /\ Depth(s, a, e) = 0
    /\ \A j \in a..(e - 1) : Depth(s, a, j) > 0
    /\ JsonLoads(SubSeq(s, a, e)).ok

\* the position of the "[" of the first marker in s
AfterMarker(s) == Find(s, StartMarker) + Len(KeyOutput) + 1

\* C17: for a part that is not JSON and holds the marker output:[ followed
\* by a bracket-balanced array, extract_array_from_text gives exactly that
\* array, from the "[" of the marker to its matching "]", and
\* search_accommodations returns it when it comes first and is not empty.
C17_ExtractsMarkedArray ==
    \A k \in DOMAIN all_text_parts :
        LET s == all_text_parts[k]
        IN  (~JsonLoads(s).ok /\ Contains(s, StartMarker)) =>
               \A e \in AfterMarker(s)..Len(s) :
                   BalancedArray(s, AfterMarker(s), e) =>
                      /\ ExtractArrayFromText(s)
                            = JsonLoads(SubSeq(s, AfterMarker(s), e)).v
                      /\ (k = 1 /\ xpc = "returned"
                            /\ ExtractArrayFromText(s).a # <<>>)
                         => accommodations = ExtractArrayFromText(s)

\* map[output:[{"ID":12,"NS":3}]] was read and [{"ID":12,"NS":3}] returned
C17_Witness ==
    /\ xpc = "returned"
    /\ all_text_parts = <<MapOutputText>>
    /\ ~JsonLoads(MapOutputText).ok
    /\ BalancedArray(MapOutputText, 12, 29)
    /\ accommodations
          = Arr(<<Obj(<< <<<<"I", "D">>, Num(12)>>, <<<<"N", "S">>, Num(3)>> >>)>>)

\* ---------------------------------------------------------------- claim C18
\* the stay of candidate c: the day of its outbound leg, the day of its
\* inbound leg, and its full destination name up to the first comma
StayOf(c) ==
    [arrival |-> IsoFormat(c[1].departureTime.date),
     departure |-> IsoFormat(c[2].departureTime.date),
     destination |-> SplitFirst(c[1].destinationFull, <<",">>)]

\* record r carries the stay of candidate c
HasStayOf(r, c) ==
    /\ r.arrival = StayOf(c).arrival
    /\ r.departure = StayOf(c).departure
    /\ r.destination = StayOf(c).destination

\* C18: every enriched record has arrival = the outbound departure date,
\* departure = the inbound departure date and destination = the full
\* destination name cut at its first comma, and every accommodation search
\* of a candidate is sent with that arrival, that departure and the given
\* adults and rooms.
C18_StayWindow ==
    /\ \A i \in DOMAIN results : HasStayOf(results[i], cheapest_flights[i])
    /\ \A i \in DOMAIN hotel_results :
          HasStayOf(hotel_results[i], cheapest_flights[i])
    /\ \A z \in DOMAIN rlog :
          IsAccommodationCall(rlog[z]) =>
             /\ rlog[z].args.arrival = StayOf(cheapest_flights[rlog[z].cand]).arrival
             /\ rlog[z].args.departure = StayOf(cheapest_flights[rlog[z].cand]).departure
             /\ rlog[z].args.adults = adults
             /\ rlog[z].args.rooms = rooms

\* a record with offers was returned for a candidate whose destination name
\* holds a comma and whose two legs leave on different days
C18_Witness ==
    \E i \in DOMAIN hotel_results :
        /\ Contains(cheapest_flights[i][1].destinationFull, <<",">>)
        /\ hotel_results[i].destination # cheapest_flights[i][1].destinationFull
        /\ hotel_results[i].arrival # hotel_results[i].departure
        /\ hotel_results[i].hotels # <<>>
        /\ \E z \in DOMAIN rlog :
              /\ IsAccommodationCall(rlog[z])
              /\ rlog[z].cand = i
              /\ rlog[z].args.arrival = hotel_results[i].arrival

\* ---------------------------------------------------------------- claim C19
\* the texts of the blocks of a content whose blocks all carry a str
TextsOf(content) == [i \in DOMAIN content.a |-> GetBlockText(content.a[i])]
AllText(content) ==
    \A i \in DOMAIN content.a : GetBlockText(content.a[i]).t = "str"

\* C19: a result that carries a structured field that is an object or an
\* array, and a non-empty sequence of content blocks that all carry a text,
\* is normalized to the value of the structured field.
C19_StructuredFirst ==
    (/\ norm_out.k # "pending"
     /\ norm_in.t = "result"
     /\ norm_in.structuredContent.t \in {"obj", "arr"}
     /\ norm_in.content.t = "arr"
     /\ norm_in.content.a # <<>>
     /\ AllText(norm_in.content))
    => norm_out = Return(norm_in.structuredContent)

\* ---------------------------------------------------------------- claim C20
\* "\n".join(texts) for a list of str values
RECURSIVE JoinLines(_)
JoinLines(texts) ==
    IF texts = <<>> THEN <<>>
    ELSE IF Len(texts) = 1 THEN texts[1].s
    ELSE texts[1].s \o <<"\n">> \o JoinLines(Tail(texts))

\* C20: for a result without structured field, with two or more text blocks
\* of which the first is not JSON and a later one is, the value returned is
\* the first that parses of: the texts joined by newlines, then each text in
\* order.
C20_RetryOnLaterBlocks ==
    (/\ norm_out.k # "pending"
     /\ norm_in.t = "result"
     /\ norm_in.structuredContent = None
     /\ norm_in.content.t = "arr"
     /\ Len(norm_in.content.a) >= 2
     /\ AllText(norm_in.content)
     /\ ~JsonLoads(TextsOf(norm_in.content)[1].s).ok
     /\ \E i \in 2..Len(norm_in.content.a) :
           JsonLoads(TextsOf(norm_in.content)[i].s).ok)
    => norm_out = FirstParsed(<<Str(JoinLines(TextsOf(norm_in.content)))>>
                                \o TextsOf(norm_in.content))

\* ---------------------------------------------------------------- claim C21
\* key names an identifier (ID, id, Id, iD) or a namespace (NS, ns, Ns, nS)
IsKeyNamed(key, name) ==
    Len(key) = 2 /\ Fold(key[1]) = name[1] /\ Fold(key[2]) = name[2]

\* the integer values record r gives under a key of that name
ValuesNamed(r, name) ==
    IF r.t # "obj" THEN {}
    ELSE { r.o[x][2].n : x \in { y \in DOMAIN r.o :
                                   IsKeyNamed(r.o[y][1], name) /\ r.o[y][2].t = "num" } }

\* record r has an identifier and a namespace
HasBoth(r) == ValuesNamed(r, KeyID) # {} /\ ValuesNamed(r, KeyNS) # {}

\* the suggestion records of data: its "output" array, or data itself
RecordsOfData(data) ==
    IF data.t = "arr" THEN data.a
    ELSE IF data.t = "obj" /\ InDict(data, KeyOutput) /\ DictGet(data, KeyOutput).t = "arr"
    THEN DictGet(data, KeyOutput).a
    ELSE <<>>

\* every value under an identifier or namespace key is an integer
IntegerFields(r) ==
    r.t = "obj" =>
       \A x \in DOMAIN r.o :
          (IsKeyNamed(r.o[x][1], KeyID) \/ IsKeyNamed(r.o[x][1], KeyNS))
             => r.o[x][2].t = "num"

\* C21: for data that is an object with an "output" array or a bare array,
\* whose identifier and namespace fields are integers,
\* _parse_suggestions_from_data returns the identifier and namespace of the
\* first record, in array order, that has both, whatever the case of the
\* key names and whatever the integers.
C21_FirstRecordWithBoth ==
    (/\ gpc = "done"
     /\ sug_pair.k # "pending"
     /\ \A j \in DOMAIN RecordsOfData(sug_data) : IntegerFields(RecordsOfData(sug_data)[j])
     /\ \E j \in DOMAIN RecordsOfData(sug_data) : HasBoth(RecordsOfData(sug_data)[j]))
    => LET recs == RecordsOfData(sug_data)
           j == CHOOSE j \in DOMAIN recs :
                   HasBoth(recs[j]) /\ \A k \in 1..(j - 1) : ~HasBoth(recs[k])
       IN  /\ sug_pair.k = "return"
           /\ sug_pair.v # None
           /\ sug_pair.v.id \in ValuesNamed(recs[j], KeyID)
           /\ sug_pair.v.ns \in ValuesNamed(recs[j], KeyNS)

\* ---------------------------------------------------------------- claim C27
\* the suggestion records a result carries: those of its structured field
\* and of its "output", and those of the JSON its texts hold
RecordsOfText(s) ==
    IF JsonLoads(s).ok THEN RecordsOfData(JsonLoads(s).v) ELSE <<>>
RecordsOfResult(result) ==
    LET sc == result.structuredContent
        parts == IF result.content.t = "arr" THEN AllTextParts(result.content.a) ELSE <<>>
    IN  { RecordsOfData(sc)[j] : j \in DOMAIN RecordsOfData(sc) }
        \cup UNION { { RecordsOfText(parts[p].s)[j] : j \in DOMAIN RecordsOfText(parts[p].s) } :
                       p \in { q \in DOMAIN parts : parts[q].t = "str" } }

\* every text of the result is JSON
AllJson(result) ==
    result.content.t = "arr" =>
       \A p \in DOMAIN AllTextParts(result.content.a) :
          /\ AllTextParts(result.content.a)[p].t = "str"
          /\ JsonLoads(AllTextParts(result.content.a)[p].s).ok

\* C27: a pair returned by get_location_suggestion for an answer in JSON is
\* the identifier and the namespace of one and the same suggestion record
\* of that answer.
C27_PairFromOneRecord ==
    (/\ gpc = "done"
     /\ sug_out.k = "return"
     /\ sug_out.v # None
     /\ AllJson(sug_result))
    => \E r \in RecordsOfResult(sug_result) :
          /\ sug_out.v.id \in ValuesNamed(r, KeyID)
          /\ sug_out.v.ns \in ValuesNamed(r, KeyNS)

\* ---------------------------------------------------------------- claim C30
\* the non-empty JSON arrays that stand in s right after an "output:"
ArraysAfterOutput(s) ==
    { JsonLoads(SubSeq(s, m + Len(KeyOutput) + 1, e)).v :
        <<m, e>> \in { x \in (DOMAIN s) \X (DOMAIN s) :
                         /\ MatchAt(s, x[1], StartMarker)
                         /\ x[2] > x[1] + Len(KeyOutput) + 1
                         /\ JsonLoads(SubSeq(s, x[1] + Len(KeyOutput) + 1, x[2])).ok } }

\* C30: for a text that is not JSON and has the form prefix + "output:" +
\* the serialization of a non-empty JSON array A + suffix, also when strings
\* of A hold "[" or "]", extract_array_from_text gives A and
\* search_accommodations returns A.
C30_ExtractsAnyArray ==
    \A k \in DOMAIN all_text_parts :
        (xpc = "returned" /\ ~JsonLoads(all_text_parts[k]).ok) =>
           \A A \in ArraysAfterOutput(all_text_parts[k]) :
               /\ ExtractArrayFromText(all_text_parts[k]) = A
               /\ k = 1 => accommodations = A

\* ---------------------------------------------------------------- claim C22
\* the calls sent for origin o and the date d days after today
CallsFor(o, d) ==
    { z \in DOMAIN calls :
        /\ calls[z].airport_code = ORIGIN_AIRPORTS[o][1]
        /\ calls[z].search_date = today + d }

\* while the date has not changed since the search began: a call for
\* Thursdays and Fridays within the horizon only, at most one per (origin,
\* day offset) and, when the search returns, exactly one for each of them
OncePerOffsetSoFar ==
    /\ \A z \in DOMAIN calls :
          \E o \in DOMAIN ORIGIN_AIRPORTS : \E d \in 0..(n_days - 1) :
                z \in CallsFor(o, d)
    /\ \A o \in DOMAIN ORIGIN_AIRPORTS : \A d \in 0..(n_days - 1) :
          /\ Cardinality(CallsFor(o, d)) <= 1
          /\ (spc = "returned" /\ Weekday(today + d) \in {THURSDAY, FRIDAY})
                => Cardinality(CallsFor(o, d)) = 1

\* one step of the two loops: the day offsets of an origin are visited one
\* by one from 0, the next origin begins when they are exhausted, and the
\* visit of a day offset sends one query, for the date computed in that
\* iteration, when that date is a Thursday or a Friday and none otherwise
VisitsEachOffsetOnce ==
    /\ \/ oi' = oi /\ day_offset' \in {day_offset, day_offset + 1}
       \/ oi' = oi + 1 /\ day_offset >= n_days /\ day_offset' = 0
    /\ day_offset' = day_offset + 1 =>
          /\ day_offset < n_days
          /\ IF Weekday(today + day_offset) \in {THURSDAY, FRIDAY}
             THEN calls' = Append(calls, CurrentQuery)
             ELSE calls' = calls /\ outbound' = outbound
    /\ calls' # calls =>
          /\ day_offset < n_days
          /\ Weekday(today + day_offset) \in {THURSDAY, FRIDAY}
          /\ calls' = Append(calls, CurrentQuery)
          /\ day_offset' = day_offset + 1 \/ spc' = "raised"

\* C22: the flight provider is called exactly once for each (origin, day
\* offset within the horizon) whose date is a Thursday or a Friday and never
\* for another weekday, never twice for one (origin, date); a query that
\* returns no pair adds no candidate; with horizon 0 there is no call and
\* the empty list is returned, not an error.
C22_OncePerAdmittedDay ==
    /\ [](/\ \A z \in DOMAIN calls :
                Weekday(calls[z].search_date) \in {THURSDAY, FRIDAY}
          /\ \A z1, z2 \in DOMAIN calls :
                (/\ calls[z1].airport_code = calls[z2].airport_code
                 /\ calls[z1].search_date = calls[z2].search_date) => z1 = z2
          /\ midnights = 0 => OncePerOffsetSoFar
          /\ Len(outbound) = Len(provided)
          /\ n_days = 0 => /\ calls = <<>>
                           /\ spc # "raised"
                           /\ spc = "returned" => outbound = <<>>)
    /\ [][VisitsEachOffsetOnce]_vars

\* a search over three days returned: both origins were asked for the
\* Thursday and the Friday, the third day was passed over, and all but one
\* of the four queries returned no pair
C22_Witness ==
    /\ spc = "returned"
    /\ midnights = 0
    /\ n_days = 3
    /\ Len(calls) = 4
    /\ Len(provided) = 1
    /\ Len(outbound) = 1
    /\ \E d \in 0..2 : Weekday(today + d) \notin {THURSDAY, FRIDAY}

\* ---------------------------------------------------------------- claim C24
\* C24: once a query of the flight provider has raised, the run is over:
\* run() is left by the exception and takes no candidate, not even the pairs
\* collected before the failure; no further query is sent, for the failed
\* day or any other; and no lodging, weather or attraction call is made.
C24_FlightFailureAborts ==
    /\ [](spc = "raised" =>
             /\ epc \in {"search", "aborted"}
             /\ cheapest_flights = <<>>
             /\ hotel_results = <<>>
             /\ travel_data = None
             /\ rlog = <<>>)
    /\ [][spc = "raised" =>
             /\ spc' = "raised"
             /\ calls' = calls
             /\ oi' = oi
             /\ day_offset' = day_offset
             /\ outbound' = outbound]_vars

\* the second query raised after the first had returned a pair, and the
\* exception has left run()
C24_Witness ==
    /\ spc = "raised"
    /\ epc = "aborted"
    /\ Len(calls) >= 2
    /\ outbound # <<>>
    /\ fetch_hotels

\* ---------------------------------------------------------------- C23
\* the calls of the history that belong to a candidate: the lodging calls
\* carry the candidate's position in the task list, a weather call the
\* position of its key in weather_keys, which is the same position
CandidateCalls == { z \in DOMAIN rlog : rlog[z].cand # 0 }

\* C23: the remote calls of one run are grouped per candidate: every call
\* for a candidate, lodging and then weather, is recorded before any call
\* for the next candidate. Violated: the lodging calls of all candidates
\* come first (lines 238-251) and the weather calls of all keys after them
\* (lines 297-309).
C23_GroupedPerCandidate ==
    \A z1, z2 \in CandidateCalls :
        z1 < z2 => rlog[z1].cand <= rlog[z2].cand

\* ---------------------------------------------------------------- C25
IsLookup(z) == rlog[z].tool = "trivago-search-suggestions"
IsAccommodationSearch(z) == rlog[z].tool = "trivago-accommodation-search"
Resolved(z) == IsLookup(z) /\ rlog[z].result \notin {None, Raised}

\* C25: lodging fetches are not deduplicated. A lookup that resolved a
\* location for a candidate is followed at once by one accommodation search
\* for that candidate (or that search is the next call to be made), an
\* accommodation search directly follows a lookup of the same candidate that
\* resolved, with the identifier and namespace the lookup returned, and no
\* candidate has two accommodation searches.
C25_OneSearchPerResolvedCandidate ==
    /\ \A z \in DOMAIN rlog :
          Resolved(z) =>
             IF z = Len(rlog)
             THEN AtSearch /\ ti = rlog[z].cand /\ suggestion = rlog[z].result
             ELSE IsAccommodationSearch(z + 1) /\ rlog[z + 1].cand = rlog[z].cand
    /\ \A z \in DOMAIN rlog :
          IsAccommodationSearch(z) =>
             /\ z > 1
             /\ Resolved(z - 1)
             /\ rlog[z - 1].cand = rlog[z].cand
             /\ rlog[z].args.id = rlog[z - 1].result.id
             /\ rlog[z].args.ns = rlog[z - 1].result.ns
    /\ \A z1, z2 \in DOMAIN rlog :
          IsAccommodationSearch(z1) /\ IsAccommodationSearch(z2)
             /\ rlog[z1].cand = rlog[z2].cand => z1 = z2

\* two candidates with the same destination and stay window, each with its
\* own accommodation search, sent with the same arguments
C25_Witness ==
    /\ Len(cheapest_flights) = 2
    /\ StayOf(cheapest_flights[1]) = StayOf(cheapest_flights[2])
    /\ \E z1, z2 \in DOMAIN rlog :
          /\ z1 < z2
          /\ IsAccommodationSearch(z1) /\ rlog[z1].cand = 1
          /\ IsAccommodationSearch(z2) /\ rlog[z2].cand = 2
          /\ rlog[z1].args = rlog[z2].args
          /\ rlog[z2].args.id = 12 /\ rlog[z2].args.ns = 3

\* ---------------------------------------------------------------- C26
\* the offers the provider returned to the accommodation search of the
\* candidate at position i
OffersReturnedFor(i) ==
    UNION { {rlog[z].result.v[x] : x \in DOMAIN rlog[z].result.v} :
              z \in { y \in DOMAIN rlog : /\ IsAccommodationSearch(y)
                                          /\ rlog[y].cand = i
                                          /\ rlog[y].result.k = "return" } }

\* every offer of the lodging records is an offer of the provider's answer
\* for that candidate, field by field
OffersAsReturned(records) ==
    \A i \in DOMAIN records :
        \A j \in DOMAIN records[i].hotels :
            records[i].hotels[j] \in OffersReturnedFor(i)

\* C26: the enrichment leaves its inputs unchanged. Every offer kept in a
\* lodging record is the record the provider returned, with no field added,
\* removed or changed by the ranking; and once the candidates are chosen no
\* step of the lodging phase or of the weather/attraction phase changes the
\* candidate list, its order, or the legs and price of a candidate.
C26_EnrichmentLeavesInputs ==
    /\ [](OffersAsReturned(results) /\ OffersAsReturned(hotel_results))
    /\ [][epc # "search" =>
             /\ cheapest_flights' = cheapest_flights
             /\ outbound' = outbound]_vars

\* a whole run with two candidates: the provider returned the later
\* departure first, for the first origin, and the sort put it second; each
\* candidate got its lodging record, the first with three offers ranked out
\* of four; then weather and attractions were fetched
C26_Witness ==
    /\ epc = "done"
    /\ travel_data # None
    /\ Len(provided) = 2
    /\ provided[1].outbound.departureTime.date
         > provided[2].outbound.departureTime.date
    /\ Len(cheapest_flights) = 2
    /\ cheapest_flights[1][2] = provided[2].inbound
    /\ cheapest_flights[2][2] = provided[1].inbound
    /\ Len(hotel_results) = 2
    /\ hotel_results[1].flight = cheapest_flights[1][1]
    /\ hotel_results[2].flight = cheapest_flights[2][1]
    /\ Len(hotel_results[1].hotels) = 3
    /\ hotel_results[1].hotels[1] = Hotel("S", Str(<<"1", "0">>))
    /\ hotel_results[2].hotels # <<>>

\* ---------------------------------------------------------------- C28
\* the value stored under key in the dict d
ItemOf(d, key) == d[CHOOSE x \in DOMAIN d : d[x][1] = key][2]

\* d has a list under every key of the set keys
ListForEvery(d, keys) ==
    \A key \in keys : HasKey(d, key) /\ ItemOf(d, key).t = "arr"

\* C28: the result of _fetch_geotemp_for_trips is all-or-nothing: None, or
\* the two maps with a list under every (destination, arrival, departure)
\* key of the input in the weather map and a list under every destination
\* of the input in the attractions map; after a failure it is None.
C28_AllOrNothing ==
    /\ travel_data # None =>
          /\ travel_data.t = "travel_data"
          /\ ListForEvery(travel_data.weather,
                          { WeatherKeys(cheapest_flights, hotel_results)[i] :
                              i \in DOMAIN WeatherKeys(cheapest_flights, hotel_results) })
          /\ ListForEvery(travel_data.attractions,
                          Destinations(cheapest_flights, hotel_results))
    /\ (epc = "done" /\ failed # {}) => travel_data = None

\* both maps are returned for two trips with different keys, one of them
\* with an empty weather list
C28_Witness ==
    /\ epc = "done"
    /\ travel_data # None
    /\ Len(travel_data.weather) = 2
    /\ travel_data.weather[1][2] = Arr(<<>>)
    /\ travel_data.weather[2][2] # Arr(<<>>)
    /\ travel_data.attractions # <<>>
    /\ Len(rlog) >= 3

\* ---------------------------------------------------------------- C29
IsWeatherCall(z) == rlog[z].tool = "get_weather"

\* C29: within one run of _fetch_geotemp_for_trips no two get_weather calls
\* carry the same arguments. Violated: the arguments sent are the destination
\* up to " - " and the month of the arrival (lines 300-306, get_weather lines
\* 75-76), so two keys of one destination with arrivals in the same month
\* lead to the same call twice.
C29_WeatherArgumentsDiffer ==
    \A z1, z2 \in DOMAIN rlog :
        (IsWeatherCall(z1) /\ IsWeatherCall(z2) /\ z1 # z2)
            => rlog[z1].args # rlog[z2].args

====
